---- MODULE Spec2Model ----
(***************************************************************************)
(* Model of the test-data helpers of the signup test suite: the password   *)
(* generator and validator, the email validator and the response verifier. *)
(* JavaScript strings are sequences of one-character strings.              *)
(***************************************************************************)
EXTENDS Integers, Sequences, FiniteSets, TLC

VARIABLES
    pc,            \* position of the running test
    randomTape,    \* the values Math.random() yields, as numerators over RandomResolution
    randomCalls,   \* number of Math.random() calls made so far
    randomUpper, randomLower, randomNumber, remaining, i,  \* locals of generateValidPassword
    password,      \* the generated password, or the argument of isValidPassword
    pwResult,      \* the record isValidPassword returned
    email,         \* the argument of isValidEmail
    emailResult,   \* the boolean isValidEmail returned
    responseBody, fieldPath, expectedValue, comparison,  \* arguments of verifyResponseBodyValue
    fieldValue,    \* its local fieldValue
    verifyResult,  \* what the call returned, or that it threw
    provinceCall,  \* the province function called, "none" before any call
    provinceKey, provinceName, localeConfig,  \* arguments of the province functions
    provinceResult, \* what the province function returned, or that it threw
    documents,     \* the JSON documents of tests/i18n, by locale and file name
    locale, baseUrl,  \* arguments of loadLocaleConfig
    config,        \* what loadLocaleConfig returned
    configAgain,   \* what a second call with the same arguments returned
    heap,          \* the objects that concurrently running tests pass by reference
    testCalls,     \* by test: the call it makes, its arguments, frame and result
    mapArrays,     \* the arrays that Array.prototype.map fills
    array,  \* the argument of getRandomValue
    arrayDraw,  \* the value Math.random() yields in getRandomValue, as numerator over RandomResolution
    arrayResult, \* what getRandomValue returned, or that it threw
    userLocale,  \* the localeConfig argument of createTestUser
    overrides,  \* its overrides argument, or that it was left out
    defaultUserData,  \* its local defaultUserData
    testUser, \* the record createTestUser returned
    interceptions,  \* by call of setupApiInterception: where its promise is, the response that matched and the value it resolved with
    responseLog, \* the responses that have arrived on the page, in order of arrival
    formData,  \* the argument of SignupPage.fillForm
    formPage,  \* the signup form on the page: the values of its fields and whether the checkbox is checked
    checkedBefore,  \* whether the checkbox was checked when fillForm was called
    filled, \* the number of fields fillForm has filled
    shellEnv,  \* process.env as the run was started: ENV, ENV_FILE and BASE_URL, each a string or undefined
    processEnv,  \* process.env
    envFiles,  \* the files of the directory environments that exist, with the variables they define
    env,  \* the constant env of playwright.config.ts
    envFile,  \* its constant envFile
    baseURL,  \* use.baseURL of the configuration
    environment,  \* the environment fixture
    fixtureBaseUrl  \* the constant baseUrl of the localeConfig fixture

pwVars == <<randomTape, randomCalls, randomUpper, randomLower, randomNumber,
            remaining, i, password, pwResult>>

emailVars == <<email, emailResult>>

verifyVars == <<responseBody, fieldPath, expectedValue, comparison, fieldValue, verifyResult>>

provinceVars == <<provinceCall, provinceKey, provinceName, localeConfig, provinceResult>>

loaderVars == <<documents, locale, baseUrl, config, configAgain>>

concurrentVars == <<heap, testCalls, mapArrays>>

randomVars == <<array, arrayDraw, arrayResult>>

userVars == <<userLocale, overrides, defaultUserData, testUser>>

interceptVars == <<interceptions, responseLog>>

formVars == <<formData, formPage, checkedBefore, filled>>

configVars == <<shellEnv, processEnv, envFiles, env, envFile, baseURL, environment, fixtureBaseUrl>>

vars == <<pc, pwVars, emailVars, verifyVars, provinceVars, loaderVars, concurrentVars, randomVars, userVars, interceptVars, formVars, configVars>>

\* what the password actions leave alone, and what the email actions leave alone
notPwVars == <<emailVars, verifyVars, provinceVars, loaderVars, concurrentVars, randomVars, userVars, interceptVars, formVars, configVars>>
notEmailVars == <<pwVars, verifyVars, provinceVars, loaderVars, concurrentVars, randomVars, userVars, interceptVars, formVars, configVars>>
notVerifyVars == <<pwVars, emailVars, provinceVars, loaderVars, concurrentVars, randomVars, userVars, interceptVars, formVars, configVars>>
notProvinceVars == <<pwVars, emailVars, verifyVars, loaderVars, concurrentVars, randomVars, userVars, interceptVars, formVars, configVars>>
notLoaderVars == <<pwVars, emailVars, verifyVars, provinceVars, concurrentVars, randomVars, userVars, interceptVars, formVars, configVars>>
notConcurrentVars == <<pwVars, emailVars, verifyVars, provinceVars, loaderVars, randomVars, userVars, interceptVars, formVars, configVars>>
notRandomVars == <<pwVars, emailVars, verifyVars, provinceVars, loaderVars, concurrentVars, userVars, interceptVars, formVars, configVars>>
notUserVars == <<pwVars, emailVars, verifyVars, provinceVars, loaderVars, concurrentVars, randomVars, interceptVars, formVars, configVars>>
notInterceptVars == <<pwVars, emailVars, verifyVars, provinceVars, loaderVars, concurrentVars, randomVars, userVars, formVars, configVars>>
notFormVars == <<pwVars, emailVars, verifyVars, provinceVars, loaderVars, concurrentVars, randomVars, userVars, interceptVars, configVars>>
notConfigVars == <<pwVars, emailVars, verifyVars, provinceVars, loaderVars, concurrentVars, randomVars, userVars, interceptVars, formVars>>

----------------------------------------------------------------------------
(* Bounds of the model *)

\* Math.random() is quantised to the values k / RandomResolution, k in 0..RandomResolution-1
RandomResolution == 8
\* the stream of Math.random() values repeats with a period of at most MaxTapePeriod
MaxTapePeriod == 3
\* isValidPassword is applied to strings of length 0..MaxPasswordLen
MaxPasswordLen == 34
\* ... made by repeating a pattern of at most MaxPattern characters
MaxPattern == 3
\* isValidEmail is applied to every string of at most MaxEmailLen characters of EmailAlphabet
MaxEmailLen == 5
\* response bodies nest objects at most MaxDepth deep
MaxDepth == 2
\* field paths hold at most MaxPathLen keys
MaxPathLen == 2
\* besides the en and fr documents, the province names of a configuration
\* repeat a pattern of at most MaxNamePattern names
MaxNamePattern == 2
MaxTests == 2
\* getRandomValue is applied to arrays of at most MaxArrayLen elements
MaxArrayLen == 3
\* at most MaxResponses responses arrive on the page
MaxResponses == 3

----------------------------------------------------------------------------
(* Characters *)

\* the printable ASCII characters in the order of their codes, 32 (space) to 126
\* (the backquote, code 96, is left out)
Ascii ==
  <<
   " ", "!", "\"", "#", "$", "%", "&", "'", "(", ")", "*", "+", ",", "-", ".", "/",
   "0", "1", "2", "3", "4", "5", "6", "7", "8", "9", ":", ";", "<", "=", ">", "?",
   "@", "A", "B", "C", "D", "E", "F", "G", "H", "I", "J", "K", "L", "M", "N", "O",
   "P", "Q", "R", "S", "T", "U", "V", "W", "X", "Y", "Z", "[", "\\", "]", "^", "_",
   "a", "b", "c", "d", "e", "f", "g", "h", "i", "j", "k", "l", "m", "n", "o",
   "p", "q", "r", "s", "t", "u", "v", "w", "x", "y", "z", "{", "|", "}", "~" >>

AsciiIndex(c) == CHOOSE k \in 1..Len(Ascii) : Ascii[k] = c

\* a regular-expression character range [lo-hi]: the characters whose code lies
\* between the codes of lo and hi
InRange(c, lo, hi) == \E k \in AsciiIndex(lo)..AsciiIndex(hi) : Ascii[k] = c

\* RegExp.prototype.test for a pattern that is one character range
TestRange(str, lo, hi) == \E k \in 1..Len(str) : InRange(str[k], lo, hi)

\* the text JavaScript concatenates for the value undefined
UndefinedText == <<"u", "n", "d", "e", "f", "i", "n", "e", "d">>

\* str[idx] used in a string concatenation: a character, or "undefined" out of range
CharAt(str, idx) ==
    IF idx >= 0 /\ idx < Len(str) THEN <<str[idx + 1]>> ELSE UndefinedText

\* all sequences over S of length 1..n
SeqsUpTo(S, n) == UNION {[1..m -> S] : m \in 1..n}

----------------------------------------------------------------------------
(* Math.random *)

\* the streams of Math.random() values the model draws from
RandomTapes == SeqsUpTo(0..(RandomResolution - 1), MaxTapePeriod)

\* the numerator of the value the (c+1)-th call of Math.random() returns
MathRandom(tape, c) == tape[(c % Len(tape)) + 1]

\* Math.floor(Math.random() * n)
RandomIndex(tape, c, n) == (MathRandom(tape, c) * n) \div RandomResolution

----------------------------------------------------------------------------
(* generateValidPassword *)

uppercase ==
  <<"A", "B", "C", "D", "E", "F", "G", "H", "I", "J", "K", "L", "M",
    "N", "O", "P", "Q", "R", "S", "T", "U", "V", "W", "X", "Y", "Z">>

lowercase ==
  <<"a", "b", "c", "d", "e", "f", "g", "h", "i", "j", "k", "l", "m",
    "n", "o", "p", "q", "r", "s", "t", "u", "v", "w", "x", "y", "z">>

numbers == <<"0", "1", "2", "3", "4", "5", "6", "7", "8", "9">>

allChars == uppercase \o lowercase \o numbers

remainingLength_short == 12 - 4

remainingLength == 12 - 3

\* the comparator of the shuffle, () => Math.random() - 0.5, scaled by 2 * RandomResolution
shuffleCompare(tape, c) == 2 * MathRandom(tape, c) - RandomResolution

Swap(arr, a, b) == [arr EXCEPT ![a] = arr[b], ![b] = arr[a]]

RECURSIVE SortInsert(_, _, _, _)
\* moves arr[j] towards the front while the comparator answers "greater"
SortInsert(arr, j, tape, c) ==
    IF j <= 1 THEN [arr |-> arr, calls |-> c]
    ELSE IF shuffleCompare(tape, c) > 0
         THEN SortInsert(Swap(arr, j - 1, j), j - 1, tape, c + 1)
         ELSE [arr |-> arr, calls |-> c + 1]

RECURSIVE SortFrom(_, _, _, _)
SortFrom(arr, j, tape, c) ==
    IF j > Len(arr) THEN [arr |-> arr, calls |-> c]
    ELSE LET r == SortInsert(arr, j, tape, c)
         IN  SortFrom(r.arr, j + 1, tape, r.calls)

\* Array.prototype.sort with the random comparator: an insertion sort whose
\* every comparison is answered by the next Math.random() value
ArraySort(arr, tape, c) == SortFrom(arr, 2, tape, c)

----------------------------------------------------------------------------
(* isValidPassword *)

ErrTooShort == "Password must be at least 12 characters"
ErrTooLong == "Password must be at most 32 characters"
ErrUpper == "Password must contain at least one uppercase letter"
ErrLower == "Password must contain at least one lowercase letter"
ErrNumber == "Password must contain at least one number"

\* isValidPassword with the minimum length compared by <= instead of <
isValidPassword_minOff(p) ==
    LET e1 == IF Len(p) <= 12 THEN <<ErrTooShort>> ELSE <<>>
        e2 == IF Len(p) > 32 THEN <<ErrTooLong>> ELSE <<>>
        e3 == IF ~TestRange(p, "A", "Z") THEN <<ErrUpper>> ELSE <<>>
        e4 == IF ~TestRange(p, "a", "z") THEN <<ErrLower>> ELSE <<>>
        e5 == IF ~TestRange(p, "0", "9") THEN <<ErrNumber>> ELSE <<>>
        errors == e1 \o e2 \o e3 \o e4 \o e5
    IN  [isValid |-> Len(errors) = 0, errors |-> errors]

\* isValidPassword with the maximum length compared by >= instead of >
isValidPassword_maxOff(p) ==
    LET e1 == IF Len(p) < 12 THEN <<ErrTooShort>> ELSE <<>>
        e2 == IF Len(p) >= 32 THEN <<ErrTooLong>> ELSE <<>>
        e3 == IF ~TestRange(p, "A", "Z") THEN <<ErrUpper>> ELSE <<>>
        e4 == IF ~TestRange(p, "a", "z") THEN <<ErrLower>> ELSE <<>>
        e5 == IF ~TestRange(p, "0", "9") THEN <<ErrNumber>> ELSE <<>>
        errors == e1 \o e2 \o e3 \o e4 \o e5
    IN  [isValid |-> Len(errors) = 0, errors |-> errors]

\* isValidPassword returning at the first violated rule
isValidPassword_firstOnly(p) ==
    LET errors ==
            IF Len(p) < 12 THEN <<ErrTooShort>>
            ELSE IF Len(p) > 32 THEN <<ErrTooLong>>
            ELSE IF ~TestRange(p, "A", "Z") THEN <<ErrUpper>>
            ELSE IF ~TestRange(p, "a", "z") THEN <<ErrLower>>
            ELSE IF ~TestRange(p, "0", "9") THEN <<ErrNumber>>
            ELSE <<>>
    IN  [isValid |-> Len(errors) = 0, errors |-> errors]

isValidPassword(p) ==
    LET e1 == IF Len(p) < 12 THEN <<ErrTooShort>> ELSE <<>>
        e2 == IF Len(p) > 32 THEN <<ErrTooLong>> ELSE <<>>
        e3 == IF ~TestRange(p, "A", "Z") THEN <<ErrUpper>> ELSE <<>>
        e4 == IF ~TestRange(p, "a", "z") THEN <<ErrLower>> ELSE <<>>
        e5 == IF ~TestRange(p, "0", "9") THEN <<ErrNumber>> ELSE <<>>
        errors == e1 \o e2 \o e3 \o e4 \o e5
    IN  [isValid |-> Len(errors) = 0, errors |-> errors]

----------------------------------------------------------------------------
(* JavaScript values *)

Undefined == [t |-> "undefined"]
Null == [t |-> "null"]
Bool(b) == [t |-> "boolean", b |-> b]
Num(n) == [t |-> "number", n |-> n]
Str(s) == [t |-> "string", s |-> s]
\* an object: its own properties in insertion order, each [k |-> key, v |-> value]
Obj(entries) == [t |-> "object", o |-> entries]
\* the function an inherited toString property holds
Fn == [t |-> "function"]
\* the abrupt completion of an expression that raised a TypeError
TypeError == [t |-> "TypeError"]

IsNullish(v) == v.t \in {"undefined", "null"}

TextUndefined ==
    <<"u", "n", "d", "e", "f", "i", "n", "e", "d">>

TextNull ==
    <<"n", "u", "l", "l">>

TextTrue ==
    <<"t", "r", "u", "e">>

TextFalse ==
    <<"f", "a", "l", "s", "e">>

TextObject ==
    <<"[", "o", "b", "j", "e", "c", "t", " ", "O", "b", "j", "e", "c", "t", "]">>

TextFunction ==
    <<"f", "u", "n", "c", "t", "i", "o", "n", " ", "t", "o", "S", "t", "r", "i", "n", "g", "(",
      ")", " ", "{", " ", "[", "n", "a", "t", "i", "v", "e", " ", "c", "o", "d", "e", "]", " ",
      "}">>

KeyToString ==
    <<"t", "o", "S", "t", "r", "i", "n", "g">>

KeyLength ==
    <<"l", "e", "n", "g", "t", "h">>

TextIsMissingOrUndefined ==
    <<" ", "i", "s", " ", "m", "i", "s", "s", "i", "n", "g", " ", "o", "r", " ", "u", "n", "d",
      "e", "f", "i", "n", "e", "d", ".", " ", "F", "u", "l", "l", " ", "r", "e", "s", "p", "o",
      "n", "s", "e", ":", " ">>

TextIsMissingExpected ==
    <<" ", "i", "s", " ", "m", "i", "s", "s", "i", "n", "g", ".", " ", "E", "x", "p", "e", "c",
      "t", "e", "d", ":", " ">>

TextButFieldIsUndefined ==
    <<",", " ", "b", "u", "t", " ", "f", "i", "e", "l", "d", " ", "i", "s", " ", "u", "n", "d",
      "e", "f", "i", "n", "e", "d", ".", " ", "F", "u", "l", "l", " ", "r", "e", "s", "p", "o",
      "n", "s", "e", ":", " ">>

TextExpected ==
    <<"E", "x", "p", "e", "c", "t", "e", "d", " ">>

TextToEqual ==
    <<" ", "t", "o", " ", "e", "q", "u", "a", "l", " ", "\"">>

TextToContain ==
    <<" ", "t", "o", " ", "c", "o", "n", "t", "a", "i", "n", " ", "\"">>

TextButGot ==
    <<"\"", ",", " ", "b", "u", "t", " ", "g", "o", "t", " ", "\"">>

TextFullResponse ==
    <<"\"", ".", " ", "F", "u", "l", "l", " ", "r", "e", "s", "p", "o", "n", "s", "e", ":", " ">>

RECURSIVE NatText(_)
NatText(n) == IF n < 10 THEN <<numbers[n + 1]>> ELSE NatText(n \div 10) \o <<numbers[(n % 10) + 1]>>

\* Number.prototype.toString of an integer
NumText(n) == IF n < 0 THEN <<"-">> \o NatText(-n) ELSE NatText(n)

\* String(v), also what a template literal inserts for v
JsString(v) ==
    CASE v.t = "undefined" -> TextUndefined
      [] v.t = "null" -> TextNull
      [] v.t = "boolean" -> (IF v.b THEN TextTrue ELSE TextFalse)
      [] v.t = "number" -> NumText(v.n)
      [] v.t = "string" -> v.s
      [] v.t = "object" -> TextObject
      [] v.t = "function" -> TextFunction

\* a == b on the primitive values: equal after conversion to text
StrictEquals_loose(a, b) == JsString(a) = JsString(b)

\* a === b; an object is equal to itself only, and none of the expected
\* values of the model is an object of the response body
StrictEquals(a, b) ==
    /\ a.t = b.t
    /\ CASE a.t = "boolean" -> a.b = b.b
         [] a.t = "number" -> a.n = b.n
         [] a.t = "string" -> a.s = b.s
         [] a.t \in {"undefined", "null"} -> TRUE
         [] OTHER -> FALSE

\* String.prototype.includes
Includes(str, sub) ==
    \E k \in 0..(Len(str) - Len(sub)) : SubSeq(str, k + 1, k + Len(sub)) = sub

RECURSIVE Split(_, _)
\* String.prototype.split on a one-character separator
Split(str, sep) ==
    IF \A k \in 1..Len(str) : str[k] # sep THEN <<str>>
    ELSE LET at == CHOOSE k \in 1..Len(str) :
                       str[k] = sep /\ \A m \in 1..(k - 1) : str[m] # sep
         IN  <<SubSeq(str, 1, at - 1)>> \o Split(SubSeq(str, at + 1, Len(str)), sep)

\* the own property key of object v exists
HasOwn(v, key) == \E k \in 1..Len(v.o) : v.o[k].k = key

OwnValue(v, key) == v.o[CHOOSE k \in 1..Len(v.o) : v.o[k].k = key].v

\* v[key]: a TypeError on undefined and null; an own property; the length of
\* a string or of a function; toString inherited from the prototype; else undefined
Get(v, key) ==
    IF IsNullish(v) THEN TypeError
    ELSE IF v.t = "object" /\ HasOwn(v, key) THEN OwnValue(v, key)
    ELSE IF v.t = "string" /\ key = KeyLength THEN Num(Len(v.s))
    ELSE IF v.t = "function" /\ key = KeyLength THEN Num(0)
    ELSE IF key = KeyToString THEN Fn
    ELSE Undefined

\* v[key] without the optional chaining
OptionalGet_unguarded(v, key) == Get(v, key)

\* v?.[key]
OptionalGet(v, key) == IF IsNullish(v) THEN Undefined ELSE Get(v, key)

RECURSIVE Reduce(_, _)
\* keys.reduce((current, key) => current?.[key], current); an exception ends it
Reduce(current, keys) ==
    IF keys = <<>> \/ current = TypeError THEN current
    ELSE Reduce(OptionalGet(current, Head(keys)), Tail(keys))

getNestedValue(obj, path) == Reduce(obj, Split(path, "."))

RECURSIVE JsonQuote(_)
\* the characters of a string as JSON writes them between the quotes
JsonQuote(str) ==
    IF str = <<>> THEN <<>>
    ELSE (CASE Head(str) = "\"" -> <<"\\", "\"">>
            [] Head(str) = "\\" -> <<"\\", "\\">>
            [] Head(str) = "\n" -> <<"\\", "n">>
            [] OTHER -> <<Head(str)>>) \o JsonQuote(Tail(str))

Spaces(n) == [k \in 1..n |-> " "]

RECURSIVE JsonText(_, _)
RECURSIVE JsonEntries(_, _)
\* the lines of the properties of an object, at the given indentation;
\* a property that holds undefined or a function is left out
JsonEntries(entries, indent) ==
    IF entries = <<>> THEN <<>>
    ELSE LET e == Head(entries)
             rest == JsonEntries(Tail(entries), indent)
         IN  IF e.v.t \in {"undefined", "function"} THEN rest
             ELSE <<Spaces(indent) \o <<"\"">> \o JsonQuote(e.k) \o <<"\"", ":", " ">>
                      \o JsonText(e.v, indent)>> \o rest

RECURSIVE JoinLines(_)
JoinLines(lines) ==
    IF Len(lines) = 1 THEN Head(lines)
    ELSE Head(lines) \o <<",", "\n">> \o JoinLines(Tail(lines))

\* the text JSON.stringify(v, null, 2) writes for a value nested at indentation indent
JsonText(v, indent) ==
    CASE v.t = "null" -> TextNull
      [] v.t = "boolean" -> (IF v.b THEN TextTrue ELSE TextFalse)
      [] v.t = "number" -> NumText(v.n)
      [] v.t = "string" -> <<"\"">> \o JsonQuote(v.s) \o <<"\"">>
      [] v.t = "object" ->
           LET lines == JsonEntries(v.o, indent + 2)
           IN  IF lines = <<>> THEN <<"{", "}">>
               ELSE <<"{", "\n">> \o JoinLines(lines) \o <<"\n">> \o Spaces(indent) \o <<"}">>

\* JSON.stringify(v, null, 2): a string, or undefined for undefined and for a function
JSONStringify(v) ==
    IF v.t \in {"undefined", "function"} THEN Undefined ELSE Str(JsonText(v, 0))

----------------------------------------------------------------------------
(* verifyResponseBodyValue *)

NotCalled == [threw |-> FALSE, isValid |-> FALSE, errorMessage |-> <<"-">>]

\* a result that says "ok" on success
Return_okMessage(isValid, errorMessage) ==
    [threw |-> FALSE, isValid |-> isValid,
     errorMessage |-> IF isValid THEN <<"o", "k">> ELSE errorMessage]

Return(isValid, errorMessage) ==
    [threw |-> FALSE, isValid |-> isValid, errorMessage |-> errorMessage]

Threw == [threw |-> TRUE, isValid |-> FALSE, errorMessage |-> <<>>]

\* the parameter default: comparison = 'contains' when the argument is left out
Comparison(cmp) == IF cmp = "omitted" THEN "contains" ELSE cmp

\* a truthiness test in place of the comparison with undefined and null
IsDefined_truthy(value) ==
    value \notin {Undefined, Null, Bool(FALSE), Num(0), Str(<<>>)}

\* line 32: fieldValue !== undefined && fieldValue !== null
IsDefined(value) == value # Undefined /\ value # Null

\* the guard without its null half
IsMissing_undefinedOnly(value) == value = Undefined

\* line 41: fieldValue === undefined || fieldValue === null
IsMissing(value) == value = Undefined \/ value = Null

\* the same checks with messages that leave out the values and the payload
verifyResponseBodyValue_terse(body, path, expected, cmp) ==
    LET value == getNestedValue(body, path)
        isValid ==
            IF Comparison(cmp) = "defined" THEN IsDefined(value)
            ELSE IF IsMissing(value) THEN FALSE
            ELSE IF Comparison(cmp) = "equals" THEN StrictEquals(value, expected)
            ELSE Includes(JsString(value), JsString(expected))
    IN  IF value = TypeError THEN Threw
        ELSE Return(isValid,
                    IF isValid THEN <<>>
                    ELSE path \o <<" ", "i", "s", " ", "w", "r", "o", "n", "g">>)

verifyResponseBodyValue(body, path, expected, cmp) ==
    LET value == getNestedValue(body, path)
        fullResponse == JsString(JSONStringify(body))
    IN  IF value = TypeError THEN Threw
        ELSE IF Comparison(cmp) = "defined" THEN
            LET isValid == IsDefined(value)
            IN  Return(isValid,
                       IF isValid THEN <<>>
                       ELSE path \o TextIsMissingOrUndefined \o fullResponse)
        ELSE IF IsMissing(value) THEN
            Return(FALSE,
                   path \o TextIsMissingExpected \o JsString(JSONStringify(expected))
                        \o TextButFieldIsUndefined \o fullResponse)
        ELSE IF Comparison(cmp) = "equals" THEN
            LET isValid == StrictEquals(value, expected)
            IN  Return(isValid,
                       IF isValid THEN <<>>
                       ELSE TextExpected \o path \o TextToEqual \o JsString(expected)
                            \o TextButGot \o JsString(value) \o TextFullResponse \o fullResponse)
        ELSE
            LET fieldStr == JsString(value)
                expectedStr == JsString(expected)
                isValid == Includes(fieldStr, expectedStr)
            IN  Return(isValid,
                       IF isValid THEN <<>>
                       ELSE TextExpected \o path \o TextToContain \o JsString(expected)
                            \o TextButGot \o JsString(value) \o TextFullResponse \o fullResponse)

----------------------------------------------------------------------------
(* The response bodies, field paths and expected values the verifier is     *)
(* applied to                                                               *)

KeyA == <<"a">>
KeyB == <<"b">>

\* the values a property of a decoded response holds at the leaves
LeafValues == {Null, Bool(FALSE), Num(0), Num(10), Str(<<>>), Str(<<"1">>)}

\* the objects with an optional property a holding a value of V, followed by
\* an optional property b holding "1"
ObjectsOver(V) ==
    {Obj(ea \o eb) :
        ea \in {<<>>} \cup {<<[k |-> KeyA, v |-> x]>> : x \in V},
        eb \in {<<>>, <<[k |-> KeyB, v |-> Str(<<"1">>)]>>}}

RECURSIVE Values(_)
\* the values nested at most depth objects deep
Values(depth) ==
    IF depth = 0 THEN LeafValues
    ELSE LeafValues \cup ObjectsOver(Values(depth - 1))

ResponseBodies == {Undefined} \cup Values(MaxDepth)

PathKeys == {KeyA, KeyB, KeyToString}

RECURSIVE JoinKeys(_)
\* keys.join('.')
JoinKeys(keys) ==
    IF Len(keys) = 1 THEN Head(keys)
    ELSE Head(keys) \o <<".">> \o JoinKeys(Tail(keys))

\* the dot-separated paths of at most MaxPathLen keys, the empty path, a path
\* with an empty key and a path to the length of a string
FieldPaths ==
    {JoinKeys(keys) : keys \in SeqsUpTo(PathKeys, MaxPathLen)}
        \cup {<<>>, <<"a", ".">>, <<"a", ".", "l", "e", "n", "g", "t", "h">>}

ExpectedValues ==
    {Undefined, Null, Bool(FALSE), Num(0), Num(1), Str(<<>>), Str(<<"1">>), Str(<<"1", "0">>)}

Comparisons == {"equals", "contains", "defined", "omitted"}

\* one call of verifyResponseBodyValue
Verify ==
    /\ pc = "ready"
    /\ \E body \in ResponseBodies, path \in FieldPaths,
          expected \in ExpectedValues, cmp \in Comparisons :
         /\ responseBody' = body
         /\ fieldPath' = path
         /\ expectedValue' = expected
         /\ comparison' = cmp
         /\ fieldValue' = getNestedValue(body, path)
         /\ verifyResult' = verifyResponseBodyValue(body, path, expected, cmp)
    /\ pc' = "verified"
    /\ UNCHANGED notVerifyVars

NextVerify == Verify

----------------------------------------------------------------------------
(* The password test: generate a password and validate it, or validate a    *)
(* given string.                                                            *)

NoResult == [isValid |-> FALSE, errors |-> <<"not called">>]

\* the characters the validated strings are made of: the ends of the three
\* ranges and a neighbour outside of them
PasswordAlphabet == {"A", "a", "z", "0", "@", "{"}

\* the string of length len that repeats pattern
Repeat(pattern, len) == [k \in 1..len |-> pattern[((k - 1) % Len(pattern)) + 1]]

Init ==
    /\ pc = "ready"
    /\ randomTape = <<0>>
    /\ randomCalls = 0
    /\ randomUpper = <<>>
    /\ randomLower = <<>>
    /\ randomNumber = <<>>
    /\ remaining = <<>>
    /\ i = 0
    /\ password = <<>>
    /\ pwResult = NoResult
    /\ email = <<>>
    /\ emailResult = FALSE
    /\ responseBody = Undefined
    /\ fieldPath = <<>>
    /\ expectedValue = Undefined
    /\ comparison = "omitted"
    /\ fieldValue = Undefined
    /\ verifyResult = NotCalled
    /\ provinceCall = "none"
    /\ provinceKey = "none"
    /\ provinceName = "none"
    /\ localeConfig = [provinces |-> <<>>]
    /\ provinceResult = [threw |-> FALSE, value |-> "none"]
    /\ documents = <<>>
    /\ locale = "none"
    /\ baseUrl = Undefined
    /\ config = [threw |-> FALSE, value |-> "none"]
    /\ configAgain = [threw |-> FALSE, value |-> "none"]
    /\ heap = <<>>
    /\ testCalls = <<>>
    /\ mapArrays = <<>>
    /\ array = <<>>
    /\ arrayDraw = 0
    /\ arrayResult = [threw |-> FALSE, value |-> "none"]
    /\ userLocale = [provinces |-> <<>>]
    /\ overrides = [given |-> FALSE]
    /\ defaultUserData = <<>>
    /\ testUser = <<>>
    /\ interceptions = <<>>
    /\ responseLog = <<>>
    /\ formData = <<>>
    /\ formPage = <<>>
    /\ checkedBefore = FALSE
    /\ filled = 0
    /\ shellEnv = <<>>
    /\ processEnv = <<>>
    /\ envFiles = {}
    /\ env = [t |-> "undefined"]
    /\ envFile = [t |-> "undefined"]
    /\ baseURL = [t |-> "undefined"]
    /\ environment = [t |-> "undefined"]
    /\ fixtureBaseUrl = [t |-> "undefined"]

\* lines 103-114: the three mandatory characters
GenPick ==
    /\ pc = "ready"
    /\ \E tape \in RandomTapes :
         /\ randomTape' = tape
         /\ randomUpper' = CharAt(uppercase, RandomIndex(tape, 0, Len(uppercase)))
         /\ randomLower' = CharAt(lowercase, RandomIndex(tape, 1, Len(lowercase)))
         /\ randomNumber' = CharAt(numbers, RandomIndex(tape, 2, Len(numbers)))
    /\ randomCalls' = 3
    /\ remaining' = <<>>
    /\ i' = 0
    /\ pc' = "loop"
    /\ UNCHANGED <<password, pwResult>>
    /\ UNCHANGED notPwVars

\* lines 115-117: one iteration of the loop
GenRemaining ==
    /\ pc = "loop"
    /\ i < remainingLength
    /\ remaining' = remaining \o CharAt(allChars, RandomIndex(randomTape, randomCalls, Len(allChars)))
    /\ randomCalls' = randomCalls + 1
    /\ i' = i + 1
    /\ UNCHANGED <<pc, randomTape, randomUpper, randomLower, randomNumber, password, pwResult>>
    /\ UNCHANGED notPwVars

\* lines 120-125: shuffle and return
GenShuffle ==
    /\ pc = "loop"
    /\ ~(i < remainingLength)
    /\ LET sorted == ArraySort(randomUpper \o randomLower \o randomNumber \o remaining,
                               randomTape, randomCalls)
       IN  /\ password' = sorted.arr
           /\ randomCalls' = sorted.calls
    /\ pc' = "generated"
    /\ UNCHANGED <<randomTape, randomUpper, randomLower, randomNumber, remaining, i, pwResult>>
    /\ UNCHANGED notPwVars

\* the test validates the password it generated
ValidateGenerated ==
    /\ pc = "generated"
    /\ pwResult' = isValidPassword(password)
    /\ pc' = "validated"
    /\ UNCHANGED <<randomTape, randomCalls, randomUpper, randomLower, randomNumber,
                   remaining, i, password>>
    /\ UNCHANGED notPwVars

\* isValidPassword applied to a given string
ValidateInput ==
    /\ pc = "ready"
    /\ \E len \in 0..MaxPasswordLen, pattern \in SeqsUpTo(PasswordAlphabet, MaxPattern) :
         /\ password' = Repeat(pattern, len)
         /\ pwResult' = isValidPassword(password')
    /\ pc' = "checked"
    /\ UNCHANGED <<randomTape, randomCalls, randomUpper, randomLower, randomNumber,
                   remaining, i>>
    /\ UNCHANGED notPwVars

NextPassword ==
    \/ GenPick
    \/ GenRemaining
    \/ GenShuffle
    \/ ValidateGenerated
    \/ ValidateInput

SpecPassword == Init /\ [][NextPassword]_vars

----------------------------------------------------------------------------
(* isValidEmail *)

\* the characters \s matches, among the characters of the model
WhiteSpace == {" ", "\t", "\n", "\r", "\f"}

\* the character class [^\s@]
NotSpaceNotAt(c) == c \notin WhiteSpace /\ c # "@"

\* str[from..to] is a match of [^\s@]+
MatchesPlus(str, from, to) ==
    /\ from <= to
    /\ \A k \in from..to : NotSpaceNotAt(str[k])

\* str[from..to] is a match of [^\s@]*
MatchesStar(str, from, to) == \A k \in from..to : NotSpaceNotAt(str[k])

\* /^[^\s@]+@[^\s@]+\.[^\s@]*$/ : the last group may be empty
isValidEmail_openEnd(e) ==
    \E at \in 1..Len(e), dot \in 1..Len(e) :
        /\ e[at] = "@"
        /\ e[dot] = "."
        /\ MatchesPlus(e, 1, at - 1)
        /\ MatchesPlus(e, at + 1, dot - 1)
        /\ MatchesStar(e, dot + 1, Len(e))

\* /^[^\s@]+@[^\s@]+\.[^\s@]+$/.test(e): e splits into three non-empty runs
\* of [^\s@], the first two separated by @ and the last two by a dot
isValidEmail(e) ==
    \E at \in 1..Len(e), dot \in 1..Len(e) :
        /\ e[at] = "@"
        /\ e[dot] = "."
        /\ MatchesPlus(e, 1, at - 1)
        /\ MatchesPlus(e, at + 1, dot - 1)
        /\ MatchesPlus(e, dot + 1, Len(e))

EmailAlphabet == {"a", "@", ".", " "}

\* the addresses of TC-009 and a well-formed one
InvalidEmail ==
  <<"i", "n", "v", "a", "l", "i", "d", "-", "e", "m", "a", "i", "l">>

InvalidAt ==
  <<"i", "n", "v", "a", "l", "i", "d", "@">>

AtInvalidCom ==
  <<"@", "i", "n", "v", "a", "l", "i", "d", ".", "c", "o", "m">>

InvalidDotDot ==
  <<"i", "n", "v", "a", "l", "i", "d", ".", ".", "e", "m", "a", "i", "l", "@", "e", "x", "a",
    "m", "p", "l", "e", ".", "c", "o", "m">>

JohnDoe ==
  <<"j", "o", "h", "n", ".", "d", "o", "e", "@", "e", "x", "a", "m", "p", "l", "e", ".", "c",
    "o", "m">>

EmailExamples == {InvalidEmail, InvalidAt, AtInvalidCom, InvalidDotDot, JohnDoe}

EmailInputs == {<<>>} \cup SeqsUpTo(EmailAlphabet, MaxEmailLen) \cup EmailExamples

\* isValidEmail applied to a given string
ValidateEmail ==
    /\ pc = "ready"
    /\ \E e \in EmailInputs :
         /\ email' = e
         /\ emailResult' = isValidEmail(e)
    /\ pc' = "emailChecked"
    /\ UNCHANGED notEmailVars

NextEmail == ValidateEmail

----------------------------------------------------------------------------
(* The province catalog: provinces.types.ts *)

\* an own property of an object literal or of a JSON document
Entry(key, value) == [k |-> key, v |-> value]

\* the object PROVINCE_CODES: its properties in the order they are written
PROVINCE_CODES ==
    << Entry("ONTARIO", "ON"),
       Entry("QUEBEC", "QC"),
       Entry("ALBERTA", "AB"),
       Entry("BRITISH_COLUMBIA", "BC"),
       Entry("MANITOBA", "MB"),
       Entry("NEW_BRUNSWICK", "NB"),
       Entry("NOVA_SCOTIA", "NS"),
       Entry("NEWFOUNDLAND", "NL"),
       Entry("PRINCE_EDWARD_ISLAND", "PE"),
       Entry("SASKATCHEWAN", "SK"),
       Entry("NORTHWEST_TERRITORIES", "NT"),
       Entry("YUKON", "YT"),
       Entry("NUNAVUT", "NU") >>

\* Object.keys(obj): the own keys in insertion order
ObjectKeys(obj) == [n \in 1..Len(obj) |-> obj[n].k]

\* the type ProvinceKey
ProvinceKey == {PROVINCE_CODES[n].k : n \in 1..Len(PROVINCE_CODES)}

\* obj[key] for a key the object has
Prop(obj, key) == obj[CHOOSE n \in 1..Len(obj) : obj[n].k = key].v

\* getLocalizedProvince with the name and the code taken from each other's table
getLocalizedProvince_swapped(key, cfg) ==
    [key |-> key,
     name |-> Prop(PROVINCE_CODES, key),
     code |-> Prop(cfg.provinces, key)]

getLocalizedProvince(key, cfg) ==
    [key |-> key,
     name |-> Prop(cfg.provinces, key),
     code |-> Prop(PROVINCE_CODES, key)]

\* the map running over the keys of the configuration's provinces
getAllLocalizedProvinces_configKeys(cfg) ==
    LET keys == ObjectKeys(cfg.provinces)
    IN  [n \in 1..Len(keys) |-> getLocalizedProvince(keys[n], cfg)]

getAllLocalizedProvinces(cfg) ==
    LET keys == ObjectKeys(PROVINCE_CODES)
    IN  [n \in 1..Len(keys) |-> getLocalizedProvince(keys[n], cfg)]

\* the index of the last match in place of the first
FindByName_last(arr, name) ==
    IF \E n \in 1..Len(arr) : arr[n].name = name
    THEN CHOOSE n \in 1..Len(arr) :
             arr[n].name = name /\ \A m \in (n + 1)..Len(arr) : arr[m].name # name
    ELSE 0

\* arr.find((p) => p.name === name): the index of the first match, 0 for undefined
FindByName(arr, name) ==
    IF \E n \in 1..Len(arr) : arr[n].name = name
    THEN CHOOSE n \in 1..Len(arr) :
             arr[n].name = name /\ \A m \in 1..(n - 1) : arr[m].name # name
    ELSE 0

Returned(value) == [threw |-> FALSE, value |-> value]

Thrown == [threw |-> TRUE, value |-> "TypeError"]

ThrownError(message) == [threw |-> TRUE, value |-> message]

\* x || '' for a string x
OrEmpty(x) == IF x = "" THEN "" ELSE x

\* province.code || '' without the optional chaining
getProvinceCodeFromName_unguarded(name, cfg) ==
    LET all == getAllLocalizedProvinces(cfg)
        found == FindByName(all, name)
    IN  IF found = 0 THEN Thrown ELSE Returned(OrEmpty(all[found].code))

\* province?.code || '': undefined?.code is undefined, and undefined || '' is ''
getProvinceCodeFromName(name, cfg) ==
    LET all == getAllLocalizedProvinces(cfg)
        found == FindByName(all, name)
    IN  IF found = 0 THEN Returned("") ELSE Returned(OrEmpty(all[found].code))

----------------------------------------------------------------------------
(* The locale configurations the province functions are applied to *)

\* provinces.json of the locale en
EnProvinces ==
    << Entry("ONTARIO", "Ontario"),
       Entry("QUEBEC", "Quebec"),
       Entry("ALBERTA", "Alberta"),
       Entry("BRITISH_COLUMBIA", "British Columbia"),
       Entry("MANITOBA", "Manitoba"),
       Entry("NEW_BRUNSWICK", "New Brunswick"),
       Entry("NOVA_SCOTIA", "Nova Scotia"),
       Entry("NEWFOUNDLAND", "Newfoundland and Labrador"),
       Entry("PRINCE_EDWARD_ISLAND", "Prince Edward Island"),
       Entry("SASKATCHEWAN", "Saskatchewan"),
       Entry("NORTHWEST_TERRITORIES", "Northwest Territories"),
       Entry("YUKON", "Yukon"),
       Entry("NUNAVUT", "Nunavut") >>

\* provinces.json of the locale fr, its keys written in another order
FrProvinces ==
    << Entry("ALBERTA", "Alberta"),
       Entry("BRITISH_COLUMBIA", "Colombie-Britannique"),
       Entry("PRINCE_EDWARD_ISLAND", "Ile-du-Prince-Edouard"),
       Entry("MANITOBA", "Manitoba"),
       Entry("NEW_BRUNSWICK", "Nouveau-Brunswick"),
       Entry("NOVA_SCOTIA", "Nouvelle-Ecosse"),
       Entry("NUNAVUT", "Nunavut"),
       Entry("ONTARIO", "Ontario (fr)"),
       Entry("QUEBEC", "Quebec (fr)"),
       Entry("SASKATCHEWAN", "Saskatchewan"),
       Entry("NEWFOUNDLAND", "Terre-Neuve-et-Labrador"),
       Entry("NORTHWEST_TERRITORIES", "Territoires du Nord-Ouest"),
       Entry("YUKON", "Yukon") >>

\* the names of the documents in which several keys share a display name
SharedNames == {"Ontario", "QC"}

\* a provinces document whose names repeat pattern over the catalog's keys
PatternProvinces(pattern) ==
    [n \in 1..Len(PROVINCE_CODES) |->
        Entry(PROVINCE_CODES[n].k, pattern[((n - 1) % Len(pattern)) + 1])]

ProvinceDocuments ==
    {EnProvinces, FrProvinces}
        \cup {PatternProvinces(pattern) : pattern \in SeqsUpTo(SharedNames, MaxNamePattern)}

LocaleConfigs == {[provinces |-> doc] : doc \in ProvinceDocuments}

\* the names looked up: every display name of a document, a code, the empty
\* string and a name of no document
ProvinceNames ==
    {doc[n].v : doc \in ProvinceDocuments, n \in 1..Len(PROVINCE_CODES)}
        \cup {"ON", "", "Atlantis"}

\* one call of getLocalizedProvince
Localize ==
    /\ pc = "ready"
    /\ \E key \in ProvinceKey, cfg \in LocaleConfigs :
         /\ provinceKey' = key
         /\ localeConfig' = cfg
         /\ provinceResult' = Returned(getLocalizedProvince(key, cfg))
    /\ provinceCall' = "getLocalizedProvince"
    /\ pc' = "returned"
    /\ UNCHANGED <<provinceName, notProvinceVars>>

\* one call of getAllLocalizedProvinces
LocalizeAll ==
    /\ pc = "ready"
    /\ \E cfg \in LocaleConfigs :
         /\ localeConfig' = cfg
         /\ provinceResult' = Returned(getAllLocalizedProvinces(cfg))
    /\ provinceCall' = "getAllLocalizedProvinces"
    /\ pc' = "returned"
    /\ UNCHANGED <<provinceKey, provinceName, notProvinceVars>>

\* one call of getProvinceCodeFromName
CodeFromName ==
    /\ pc = "ready"
    /\ \E name \in ProvinceNames, cfg \in LocaleConfigs :
         /\ provinceName' = name
         /\ localeConfig' = cfg
         /\ provinceResult' = getProvinceCodeFromName(name, cfg)
    /\ provinceCall' = "getProvinceCodeFromName"
    /\ pc' = "returned"
    /\ UNCHANGED <<provinceKey, notProvinceVars>>

NextProvince ==
    \/ Localize
    \/ LocalizeAll
    \/ CodeFromName

----------------------------------------------------------------------------
(* loadLocaleConfig: locale-loader.ts *)

\* String.prototype.endsWith and startsWith
EndsWith(str, suffix) ==
    Len(suffix) <= Len(str) /\ SubSeq(str, Len(str) - Len(suffix) + 1, Len(str)) = suffix

StartsWith(str, prefix) ==
    Len(prefix) <= Len(str) /\ SubSeq(str, 1, Len(prefix)) = prefix

\* the condition on an optional string: neither undefined nor ''
Truthy_notUndefined(v) == v.t = "string"

Truthy(v) == v.t = "string" /\ v.s # <<>>

\* the base left as it is
StripTrailingSlash_kept(url) == url

\* line 44: baseUrl.endsWith('/') ? baseUrl.slice(0, -1) : baseUrl
StripTrailingSlash(url) ==
    IF EndsWith(url, <<"/">>) THEN SubSeq(url, 1, Len(url) - 1) ELSE url

TextHttp == <<"h", "t", "t", "p">>

TextNestoSite ==
    <<"h", "t", "t", "p", "s", ":", "/", "/", "w", "w", "w", ".", "n", "e", "s", "t", "o", ".", "c", "a">>

\* a file that holds the JSON text of doc, no file, and a file that holds
\* text that is no JSON
JsonFile(doc) == [content |-> "json", value |-> doc]
NoFile == [content |-> "none"]
GarbledFile == [content |-> "garbled"]

\* readFileSync and JSON.parse of tests/i18n/<locale>/<filename>
loadJsonFile(files, loc, filename) ==
    LET file == files[loc][filename]
    IN  IF file.content = "none" THEN ThrownError("ENOENT")
        ELSE IF file.content = "garbled" THEN ThrownError("SyntaxError")
        ELSE Returned(file.value)

\* ${obj.key} in a template literal
Template(obj, key) == IF key \in DOMAIN obj THEN obj[key] ELSE UndefinedText

\* the resolved urls written back into the urls document of the locale
FilesAfterLoad_writtenBack(files, loc, base) ==
    IF Truthy(base)
    THEN [files EXCEPT ![loc]["urls.json"].value.signup =
              StripTrailingSlash(base.s) \o files[loc]["urls.json"].value.signup]
    ELSE files

\* the files after a call of loadLocaleConfig: readFileSync only reads them
FilesAfterLoad(files, loc, base) == files

\* a throw of loadJsonFile or of a property access ends the call
loadLocaleConfig(files, loc, base) ==
    LET signup == loadJsonFile(files, loc, "signup.json")
        provinces == loadJsonFile(files, loc, "provinces.json")
        urls == loadJsonFile(files, loc, "urls.json")
        unresolved ==
            [baseUrl |-> IF Truthy(base) THEN base.s ELSE <<>>] @@ urls.value
        stripped == StripTrailingSlash(base.s)
        resolved ==
            [signup |-> stripped \o Template(urls.value, "signup"),
             baseUrl |-> stripped,
             login |-> stripped \o Template(urls.value, "login"),
             termsOfService |->
                 IF StartsWith(urls.value.termsOfService, TextHttp)
                 THEN urls.value.termsOfService
                 ELSE TextNestoSite \o urls.value.termsOfService]
    IN  IF signup.threw THEN signup
        ELSE IF provinces.threw THEN provinces
        ELSE IF urls.threw THEN urls
        ELSE IF Truthy(base) /\ "termsOfService" \notin DOMAIN urls.value
        THEN ThrownError("TypeError")
        ELSE Returned([signup |-> signup.value,
                       provinces |-> provinces.value,
                       urls |-> IF Truthy(base) THEN resolved ELSE unresolved])

----------------------------------------------------------------------------
(* The documents and base URLs loadLocaleConfig is applied to *)

RelativeSignup == <<"/", "s">>
AbsoluteSignup == <<"h", "t", "t", "p", ":", "/", "/", "e", "/", "s">>
RelativeLogin == <<"/", "l">>
AbsoluteLogin == <<"h", "t", "t", "p", "s", ":", "/", "/", "e", "/", "l">>
RelativeTerms == <<"/", "t">>
AbsoluteTerms == <<"h", "t", "t", "p", "s", ":", "/", "/", "e", "/", "t">>
\* a relative path that begins with the letters http
HttpDirTerms == <<"h", "t", "t", "p", "d", "/", "t">>

\* the urls.json documents
UrlsDocuments ==
    [signup : {RelativeSignup, AbsoluteSignup},
     login : {RelativeLogin, AbsoluteLogin},
     termsOfService : {RelativeTerms, AbsoluteTerms, HttpDirTerms}]

\* the three documents of a locale
LocaleDocuments(signupDoc, provincesDoc, urlsDoc) ==
    ("signup.json" :> JsonFile(signupDoc)) @@ ("provinces.json" :> JsonFile(provincesDoc))
        @@ ("urls.json" :> JsonFile(urlsDoc))

\* the contents of tests/i18n
DocumentStores ==
    {("en" :> LocaleDocuments([heading |-> "Create a nesto account"], EnProvinces, enUrls))
        @@ ("fr" :> LocaleDocuments([heading |-> "Creez un compte nesto"], FrProvinces, frUrls)) :
        enUrls \in UrlsDocuments, frUrls \in UrlsDocuments}

BaseApp == <<"h", "t", "t", "p", ":", "/", "/", "b">>

\* the base URLs: none, the empty string, a lone slash, and a base with no,
\* one and two trailing slashes
BaseUrls ==
    {Undefined, Str(<<>>), Str(<<"/">>), Str(BaseApp), Str(BaseApp \o <<"/">>),
     Str(BaseApp \o <<"/", "/">>)}

Locales == {"en", "fr"}

\* the documents as they are on disk when the tests start
StoreDocuments ==
    /\ pc = "ready"
    /\ documents' \in DocumentStores
    /\ pc' = "stored"
    /\ UNCHANGED <<locale, baseUrl, config, configAgain, notLoaderVars>>

\* a call of loadLocaleConfig
Load ==
    /\ pc = "stored"
    /\ \E loc \in Locales, base \in BaseUrls :
         /\ locale' = loc
         /\ baseUrl' = base
         /\ config' = loadLocaleConfig(documents, loc, base)
         /\ documents' = FilesAfterLoad(documents, loc, base)
    /\ pc' = "loaded"
    /\ UNCHANGED <<configAgain, notLoaderVars>>

\* a second call with the arguments of the first
LoadAgain ==
    /\ pc = "loaded"
    /\ configAgain' = loadLocaleConfig(documents, locale, baseUrl)
    /\ documents' = FilesAfterLoad(documents, locale, baseUrl)
    /\ pc' = "reloaded"
    /\ UNCHANGED <<locale, baseUrl, config, notLoaderVars>>

NextLoader ==
    \/ StoreDocuments
    \/ Load
    \/ LoadAgain

\* the documents of the locale en with one of them missing, garbled or
\* lacking a key, and the documents as they should be
FaultyFiles ==
    {[filename |-> name, file |-> file] :
        name \in {"signup.json", "provinces.json", "urls.json"},
        file \in {NoFile, GarbledFile}}
    \cup
    {[filename |-> "signup.json", file |-> JsonFile([title |-> "Create a nesto account"])],
     [filename |-> "provinces.json",
      file |-> JsonFile(SubSeq(EnProvinces, 1, Len(EnProvinces) - 1))],
     [filename |-> "urls.json",
      file |-> JsonFile([login |-> RelativeLogin, termsOfService |-> RelativeTerms])],
     [filename |-> "urls.json",
      file |-> JsonFile([signup |-> RelativeSignup, termsOfService |-> RelativeTerms])],
     [filename |-> "urls.json",
      file |-> JsonFile([signup |-> RelativeSignup, login |-> RelativeLogin])],
     [filename |-> "urls.json",
      file |-> JsonFile([signup |-> RelativeSignup, login |-> RelativeLogin,
                         termsOfService |-> RelativeTerms])]}

SoundStore ==
    LET urlsDoc == [signup |-> RelativeSignup, login |-> RelativeLogin,
                    termsOfService |-> RelativeTerms]
    IN  ("en" :> LocaleDocuments([heading |-> "Create a nesto account"], EnProvinces, urlsDoc))
            @@ ("fr" :> LocaleDocuments([heading |-> "Creez un compte nesto"], FrProvinces,
                                         urlsDoc))

\* the documents on disk, one of those of en possibly at fault
StoreFaultyDocuments ==
    /\ pc = "ready"
    /\ \E fault \in FaultyFiles :
         documents' = [SoundStore EXCEPT !["en"][fault.filename] = fault.file]
    /\ pc' = "stored"
    /\ UNCHANGED <<locale, baseUrl, config, configAgain, notLoaderVars>>

NextLoaderFaults ==
    \/ StoreFaultyDocuments
    \/ Load

----------------------------------------------------------------------------
(* Calls made by concurrently running tests.  Each call runs in steps: a    *)
(* step per key of a map or reduce, a step per statement otherwise.  Steps  *)
(* of different calls interleave at every step, which includes the          *)
(* run-to-completion order of one JavaScript thread.                        *)

Tests == 1..MaxTests

Idle == [fn |-> "none", at |-> "idle", args |-> <<>>, frame |-> <<>>, result |-> <<>>]

\* one array for all calls
ResultArray_shared(t) == 1

\* the array that map fills in the call of test t: a new one for every call
ResultArray(t) == t

\* the statements of verifyResponseBodyValue that follow the two constants
CompareAndReturn(value, fullResponse, path, expected, cmp) ==
    IF value = TypeError THEN Threw
    ELSE IF Comparison(cmp) = "defined" THEN
        Return(IsDefined(value),
               IF IsDefined(value) THEN <<>>
               ELSE path \o TextIsMissingOrUndefined \o fullResponse)
    ELSE IF IsMissing(value) THEN
        Return(FALSE,
               path \o TextIsMissingExpected \o JsString(JSONStringify(expected))
                    \o TextButFieldIsUndefined \o fullResponse)
    ELSE IF Comparison(cmp) = "equals" THEN
        Return(StrictEquals(value, expected),
               IF StrictEquals(value, expected) THEN <<>>
               ELSE TextExpected \o path \o TextToEqual \o JsString(expected)
                    \o TextButGot \o JsString(value) \o TextFullResponse \o fullResponse)
    ELSE
        Return(Includes(JsString(value), JsString(expected)),
               IF Includes(JsString(value), JsString(expected)) THEN <<>>
               ELSE TextExpected \o path \o TextToContain \o JsString(expected)
                    \o TextButGot \o JsString(value) \o TextFullResponse \o fullResponse)

\* a response body with a nested object
NestedBody ==
    Obj(<<[k |-> KeyA, v |-> Obj(<<[k |-> KeyA, v |-> Num(10)]>>)]>>)

\* the locale configuration and the response body the tests share
SharedObjects ==
    {[config |-> [provinces |-> EnProvinces], body |-> NestedBody],
     [config |-> [provinces |-> FrProvinces], body |-> Undefined]}

TestKeys == {"ONTARIO", "NUNAVUT"}

TestNames == {"Ontario", "Atlantis"}

TestPaths == {<<"a", ".", "a">>, <<"a", ".", "b">>}

\* expected value and comparison of the verifier calls
TestChecks ==
    {[expected |-> Num(10), cmp |-> "equals"],
     [expected |-> Str(<<"1">>), cmp |-> "omitted"],
     [expected |-> Undefined, cmp |-> "defined"]}

Running(t, fn) == pc = "shared" /\ testCalls[t].fn = fn /\ testCalls[t].at = "running"

\* the objects exist before the tests call anything
ShareObjects ==
    /\ pc = "ready"
    /\ heap' \in SharedObjects
    /\ testCalls' = [t \in Tests |-> Idle]
    /\ mapArrays' = [t \in Tests |-> <<>>]
    /\ pc' = "shared"
    /\ UNCHANGED notConcurrentVars

\* test t calls getLocalizedProvince(key, localeConfig)
BeginLocalize(t) ==
    /\ pc = "shared"
    /\ testCalls[t].at = "idle"
    /\ \E key \in TestKeys :
         testCalls' = [testCalls EXCEPT ![t] =
             [fn |-> "getLocalizedProvince", at |-> "running",
              args |-> [key |-> key, localeConfig |-> heap.config],
              frame |-> <<>>, result |-> <<>>]]
    /\ UNCHANGED <<pc, heap, mapArrays, notConcurrentVars>>

\* the return statement of getLocalizedProvince
LocalizeReturn(t) ==
    /\ Running(t, "getLocalizedProvince")
    /\ testCalls' = [testCalls EXCEPT
           ![t].result = getLocalizedProvince(testCalls[t].args.key, heap.config),
           ![t].at = "returned"]
    /\ UNCHANGED <<pc, heap, mapArrays, notConcurrentVars>>

\* test t calls getAllLocalizedProvinces(localeConfig): Object.keys is taken
\* and map starts on a new array
BeginLocalizeAll(t) ==
    /\ pc = "shared"
    /\ testCalls[t].at = "idle"
    /\ testCalls' = [testCalls EXCEPT ![t] =
           [fn |-> "getAllLocalizedProvinces", at |-> "running",
            args |-> [localeConfig |-> heap.config],
            frame |-> [keys |-> ObjectKeys(PROVINCE_CODES), n |-> 0], result |-> <<>>]]
    /\ mapArrays' = [mapArrays EXCEPT ![ResultArray(t)] = <<>>]
    /\ UNCHANGED <<pc, heap, notConcurrentVars>>

\* test t calls getProvinceCodeFromName(name, localeConfig), which starts
\* with getAllLocalizedProvinces
BeginCodeFromName(t) ==
    /\ pc = "shared"
    /\ testCalls[t].at = "idle"
    /\ \E name \in TestNames :
         testCalls' = [testCalls EXCEPT ![t] =
             [fn |-> "getProvinceCodeFromName", at |-> "running",
              args |-> [provinceName |-> name, localeConfig |-> heap.config],
              frame |-> [keys |-> ObjectKeys(PROVINCE_CODES), n |-> 0], result |-> <<>>]]
    /\ mapArrays' = [mapArrays EXCEPT ![ResultArray(t)] = <<>>]
    /\ UNCHANGED <<pc, heap, notConcurrentVars>>

\* the callback of map for the next key
MapStep(t) ==
    /\ \/ Running(t, "getAllLocalizedProvinces")
       \/ Running(t, "getProvinceCodeFromName")
    /\ testCalls[t].frame.n < Len(testCalls[t].frame.keys)
    /\ mapArrays' = [mapArrays EXCEPT ![ResultArray(t)] =
           Append(@, getLocalizedProvince(
                         testCalls[t].frame.keys[testCalls[t].frame.n + 1], heap.config))]
    /\ testCalls' = [testCalls EXCEPT ![t].frame.n = @ + 1]
    /\ UNCHANGED <<pc, heap, notConcurrentVars>>

\* map is through: getAllLocalizedProvinces returns the array
LocalizeAllReturn(t) ==
    /\ Running(t, "getAllLocalizedProvinces")
    /\ testCalls[t].frame.n = Len(testCalls[t].frame.keys)
    /\ testCalls' = [testCalls EXCEPT
           ![t].result = mapArrays[ResultArray(t)],
           ![t].at = "returned"]
    /\ UNCHANGED <<pc, heap, mapArrays, notConcurrentVars>>

\* map is through: find and the return statement of getProvinceCodeFromName
CodeFromNameReturn(t) ==
    /\ Running(t, "getProvinceCodeFromName")
    /\ testCalls[t].frame.n = Len(testCalls[t].frame.keys)
    /\ LET allProvinces == mapArrays[ResultArray(t)]
           found == FindByName(allProvinces, testCalls[t].args.provinceName)
       IN  testCalls' = [testCalls EXCEPT
               ![t].result = IF found = 0 THEN Returned("")
                             ELSE Returned(OrEmpty(allProvinces[found].code)),
               ![t].at = "returned"]
    /\ UNCHANGED <<pc, heap, mapArrays, notConcurrentVars>>

\* test t calls verifyResponseBodyValue(responseBody, fieldPath,
\* expectedValue, comparison): getNestedValue splits the path
BeginVerify(t) ==
    /\ pc = "shared"
    /\ testCalls[t].at = "idle"
    /\ \E path \in TestPaths, check \in TestChecks :
         testCalls' = [testCalls EXCEPT ![t] =
             [fn |-> "verifyResponseBodyValue", at |-> "running",
              args |-> [responseBody |-> heap.body, fieldPath |-> path,
                        expectedValue |-> check.expected, comparison |-> check.cmp],
              frame |-> [at |-> "reduce", keys |-> Split(path, "."), current |-> heap.body],
              result |-> <<>>]]
    /\ UNCHANGED <<pc, heap, mapArrays, notConcurrentVars>>

\* the callback of reduce for the next key
ReduceStep(t) ==
    /\ Running(t, "verifyResponseBodyValue")
    /\ testCalls[t].frame.at = "reduce"
    /\ testCalls[t].frame.keys # <<>>
    /\ testCalls[t].frame.current # TypeError
    /\ testCalls' = [testCalls EXCEPT
           ![t].frame.current = OptionalGet(@, Head(testCalls[t].frame.keys)),
           ![t].frame.keys = Tail(@)]
    /\ UNCHANGED <<pc, heap, mapArrays, notConcurrentVars>>

\* reduce is through: fieldValue is set and fullResponse is written
Stringify(t) ==
    /\ Running(t, "verifyResponseBodyValue")
    /\ testCalls[t].frame.at = "reduce"
    /\ testCalls[t].frame.keys = <<>> \/ testCalls[t].frame.current = TypeError
    /\ testCalls' = [testCalls EXCEPT ![t].frame =
           [at |-> "compare", fieldValue |-> testCalls[t].frame.current,
            fullResponse |-> JsString(JSONStringify(heap.body))]]
    /\ UNCHANGED <<pc, heap, mapArrays, notConcurrentVars>>

\* the comparison and the return statement of verifyResponseBodyValue
VerifyReturn(t) ==
    /\ Running(t, "verifyResponseBodyValue")
    /\ testCalls[t].frame.at = "compare"
    /\ testCalls' = [testCalls EXCEPT
           ![t].result = CompareAndReturn(testCalls[t].frame.fieldValue,
                                          testCalls[t].frame.fullResponse,
                                          testCalls[t].args.fieldPath,
                                          testCalls[t].args.expectedValue,
                                          testCalls[t].args.comparison),
           ![t].at = "returned"]
    /\ UNCHANGED <<pc, heap, mapArrays, notConcurrentVars>>

NextConcurrent ==
    \/ ShareObjects
    \/ \E t \in Tests : BeginLocalize(t)
    \/ \E t \in Tests : LocalizeReturn(t)
    \/ \E t \in Tests : BeginLocalizeAll(t)
    \/ \E t \in Tests : BeginCodeFromName(t)
    \/ \E t \in Tests : MapStep(t)
    \/ \E t \in Tests : LocalizeAllReturn(t)
    \/ \E t \in Tests : CodeFromNameReturn(t)
    \/ \E t \in Tests : BeginVerify(t)
    \/ \E t \in Tests : ReduceStep(t)
    \/ \E t \in Tests : Stringify(t)
    \/ \E t \in Tests : VerifyReturn(t)

----------------------------------------------------------------------------
(* getRandomValue *)

\* undefined for the empty array, as array[0] gives
getRandomValue_undefinedWhenEmpty(arr, random) ==
    IF Len(arr) = 0 THEN Returned("undefined")
    ELSE Returned(arr[RandomIndex(<<random>>, 0, Len(arr)) + 1])

\* random is the value Math.random() yields in the call
getRandomValue(arr, random) ==
    IF Len(arr) = 0 THEN ThrownError("Cannot get random value from empty array")
    ELSE Returned(arr[RandomIndex(<<random>>, 0, Len(arr)) + 1])

ArrayElements == {"Ontario", "Quebec", "Alberta"}

\* the arrays getRandomValue is applied to: the empty one and the arrays of
\* at most MaxArrayLen elements
Arrays == {<<>>} \cup SeqsUpTo(ArrayElements, MaxArrayLen)

\* one call of getRandomValue
RandomValue ==
    /\ pc = "ready"
    /\ \E arr \in Arrays, random \in 0..(RandomResolution - 1) :
         /\ array' = arr
         /\ arrayDraw' = random
         /\ arrayResult' = getRandomValue(arr, random)
    /\ pc' = "drawn"
    /\ UNCHANGED notRandomVars

NextRandom == RandomValue

----------------------------------------------------------------------------
(* createTestUser *)

\* generateValidPassword in one evaluation, Math.random() read from the tape
generateValidPassword(tape) ==
    LET upper == CharAt(uppercase, RandomIndex(tape, 0, Len(uppercase)))
        lower == CharAt(lowercase, RandomIndex(tape, 1, Len(lowercase)))
        number == CharAt(numbers, RandomIndex(tape, 2, Len(numbers)))
        rest == [k \in 1..remainingLength |->
                    allChars[RandomIndex(tape, 2 + k, Len(allChars)) + 1]]
    IN  ArraySort(upper \o lower \o number \o rest, tape, 3 + remainingLength).arr

\* { ...a, ...b } with the properties of a winning
Spread_firstWins(a, b) == a @@ b

\* { ...a, ...b }: the properties of b replace those of a
Spread(a, b) == b @@ a

\* the properties an optional object contributes to a spread
SpreadOf(argument) == IF argument.given THEN argument.fields ELSE <<>>

\* defaultUserData with the code of the province
DefaultUserData_provinceCode(cfg, tape, fake) ==
    LET generated == generateValidPassword(tape)
        ontarioProvince == getLocalizedProvince("ONTARIO", cfg)
    IN  [firstName |-> fake.firstName,
         lastName |-> fake.lastName,
         phoneNumber |-> fake.phoneNumber,
         province |-> ontarioProvince.code,
         email |-> fake.email,
         password |-> generated,
         confirmPassword |-> generated,
         partnerContact |-> FALSE]

\* lines 527-536; fake holds what the faker calls returned
DefaultUserData(cfg, tape, fake) ==
    LET generated == generateValidPassword(tape)
        ontarioProvince == getLocalizedProvince("ONTARIO", cfg)
    IN  [firstName |-> fake.firstName,
         lastName |-> fake.lastName,
         phoneNumber |-> fake.phoneNumber,
         province |-> ontarioProvince.name,
         email |-> fake.email,
         password |-> generated,
         confirmPassword |-> generated,
         partnerContact |-> FALSE]

createTestUser(cfg, given, tape, fake) ==
    Spread(DefaultUserData(cfg, tape, fake), SpreadOf(given))

\* what faker.person.firstName(), lastName(), string.numeric(10) and
\* internet.email() return
FakerValues ==
    [firstName : {"Ada", "Jean-Luc"},
     lastName : {"Roy"},
     phoneNumber : {"4165550100"},
     email : {"ada.roy@example.com"}]

WeakPassword == <<"w", "e", "a", "k">>

OtherPassword == <<"O", "t", "h", "e", "r", "P", "a", "s", "s", "w", "0", "r", "d">>

\* the overrides of the tests and some more
OverrideRecords ==
    {<<>>,
     [partnerContact |-> TRUE],
     [password |-> WeakPassword],
     [confirmPassword |-> OtherPassword],
     [password |-> OtherPassword, confirmPassword |-> WeakPassword],
     [province |-> "QC"],
     [firstName |-> "", email |-> "invalid-email"]}

OverrideArguments ==
    {[given |-> FALSE]} \cup {[given |-> TRUE, fields |-> o] : o \in OverrideRecords}

UserLocaleConfigs == {[provinces |-> EnProvinces], [provinces |-> FrProvinces]}

\* one call of createTestUser
CreateTestUser ==
    /\ pc = "ready"
    /\ \E cfg \in UserLocaleConfigs, given \in OverrideArguments,
          tape \in RandomTapes, fake \in FakerValues :
         /\ userLocale' = cfg
         /\ overrides' = given
         /\ defaultUserData' = DefaultUserData(cfg, tape, fake)
         /\ testUser' = createTestUser(cfg, given, tape, fake)
    /\ pc' = "created"
    /\ UNCHANGED notUserVars

NextUser == CreateTestUser

----------------------------------------------------------------------------
(* setupApiInterception *)

\* a response whose body is the JSON text of value
JsonResponse(url, method, status, value) ==
    [url |-> url, method |-> method, status |-> status,
     text |-> JsonText(value, 0), payload |-> value]

\* a response whose body is no JSON text
TextResponse(url, method, status, text) ==
    [url |-> url, method |-> method, status |-> status,
     text |-> text, payload |-> Undefined]

NoResponse == TextResponse(<<>>, "", 0, <<>>)

\* the URLs of the responses, written without their scheme
UrlAccounts == <<"/", "/", "n", "/", "a", "p", "i", "/", "a", "c", "c", "o", "u", "n", "t", "s">>
UrlAccount == <<"/", "/", "n", "/", "a", "p", "i", "/", "a", "c", "c", "o", "u", "n", "t">>
UrlToken == <<"/", "/", "n", "/", "o", "a", "u", "t", "h", "/", "t", "o", "k", "e", "n">>

\* the values the server encodes in its bodies
JsonValues ==
    {Obj(<<[k |-> KeyA, v |-> Str(<<"1">>)]>>), Obj(<<>>), Null, Num(10)}

\* the responses that arrive on the page
Responses ==
    {JsonResponse(UrlAccounts, "POST", 201, Obj(<<[k |-> KeyA, v |-> Str(<<"1">>)]>>)),
     TextResponse(UrlAccounts, "POST", 500, <<"<", "h", "t", "m", "l", ">">>),
     JsonResponse(UrlToken, "POST", 200, Num(10)),
     JsonResponse(UrlAccount, "GET", 200, Null),
     JsonResponse(UrlAccounts, "GET", 200, Obj(<<>>))}

\* a string pattern, and a regular expression of the form /text$/
StringPattern(text) == [type |-> "string", text |-> text]
RegExpEndingWith(text) == [type |-> "RegExp", text |-> text]

\* the calls of setupApiInterception: those of TC-018, the first with the
\* method left out and the second with a regular expression
InterceptionCalls ==
    [signup |-> [urlPattern |-> StringPattern(<<"/", "a", "p", "i", "/", "a", "c", "c", "o", "u", "n", "t", "s">>), requestMethod |-> "omitted"],
     oauth |-> [urlPattern |-> RegExpEndingWith(<<"/", "o", "a", "u", "t", "h", "/", "t", "o", "k", "e", "n">>), requestMethod |-> "POST"],
     account |-> [urlPattern |-> StringPattern(<<"/", "a", "p", "i", "/", "a", "c", "c", "o", "u", "n", "t">>), requestMethod |-> "GET"]]

\* the parameter default: requestMethod = 'POST'
RequestMethod(method) == IF method = "omitted" THEN "POST" ELSE method

\* line 23-25: url.includes(urlPattern) or urlPattern.test(url)
UrlMatches(urlPattern, url) ==
    IF urlPattern.type = "string" THEN Includes(url, urlPattern.text)
    ELSE EndsWith(url, urlPattern.text)

\* the predicate without the comparison of the method
ResponsePredicate_urlOnly(call, resp) == UrlMatches(call.urlPattern, resp.url)

\* the predicate passed to page.waitForResponse
ResponsePredicate(call, resp) ==
    UrlMatches(call.urlPattern, resp.url) /\ resp.method = RequestMethod(call.requestMethod)

\* response.json(): the value the body is the JSON text of, or a SyntaxError
ResponseJson(resp) ==
    IF \E v \in JsonValues : JsonText(v, 0) = resp.text
    THEN Returned(CHOOSE v \in JsonValues : JsonText(v, 0) = resp.text)
    ELSE ThrownError("SyntaxError")

\* the decoded body without the catch
BodyOf_uncaught(decoded) == IF decoded.threw THEN Undefined ELSE decoded.value

\* line 30: .catch(() => ({}))
BodyOf(decoded) == IF decoded.threw THEN Obj(<<>>) ELSE decoded.value

\* the callback of then
ApiResponse(resp) == [status |-> resp.status, body |-> BodyOf(ResponseJson(resp))]

NoApiResponse == [status |-> 0, body |-> Undefined]

NotSetUp == [at |-> "not set up", since |-> 0, response |-> NoResponse, value |-> NoApiResponse]

\* the test has its page
OpenPage ==
    /\ pc = "ready"
    /\ interceptions' = [c \in DOMAIN InterceptionCalls |-> NotSetUp]
    /\ responseLog' = <<>>
    /\ pc' = "page"
    /\ UNCHANGED notInterceptVars

\* setupApiInterception(page, urlPattern, requestMethod): waitForResponse
\* hears of the responses that arrive from now on
SetupApiInterception(c) ==
    /\ pc = "page"
    /\ interceptions[c].at = "not set up"
    /\ interceptions' = [interceptions EXCEPT
           ![c].at = "waiting", ![c].since = Len(responseLog)]
    /\ UNCHANGED <<pc, responseLog, notInterceptVars>>

\* a response arrives: every waiting predicate is asked, and waitForResponse
\* is fulfilled with the response where the predicate holds
ResponseArrives ==
    /\ pc = "page"
    /\ Len(responseLog) < MaxResponses
    /\ \E resp \in Responses :
         /\ responseLog' = Append(responseLog, resp)
         /\ interceptions' =
                [c \in DOMAIN InterceptionCalls |->
                    IF /\ interceptions[c].at = "waiting"
                       /\ ResponsePredicate(InterceptionCalls[c], resp)
                    THEN [interceptions[c] EXCEPT !.at = "fulfilled", !.response = resp]
                    ELSE interceptions[c]]
    /\ UNCHANGED <<pc, notInterceptVars>>

\* the callback of then runs and the promise resolves
ThenResolves(c) ==
    /\ pc = "page"
    /\ interceptions[c].at = "fulfilled"
    /\ interceptions' = [interceptions EXCEPT
           ![c].at = "resolved", ![c].value = ApiResponse(interceptions[c].response)]
    /\ UNCHANGED <<pc, responseLog, notInterceptVars>>

\* the timeout of page.waitForResponse expires and the promise rejects
WaitTimesOut(c) ==
    /\ pc = "page"
    /\ interceptions[c].at = "waiting"
    /\ interceptions' = [interceptions EXCEPT ![c].at = "rejected"]
    /\ UNCHANGED <<pc, responseLog, notInterceptVars>>

NextIntercept ==
    \/ OpenPage
    \/ \E c \in DOMAIN InterceptionCalls : SetupApiInterception(c)
    \/ ResponseArrives
    \/ \E c \in DOMAIN InterceptionCalls : ThenResolves(c)
    \/ \E c \in DOMAIN InterceptionCalls : WaitTimesOut(c)

----------------------------------------------------------------------------
(* SignupPage.fillForm *)

\* the fields in the order fillForm fills them
FormFields ==
    <<"firstName", "lastName", "phoneNumber", "province", "email", "password",
      "confirmPassword">>

\* the options of the province select
ProvinceOptions == {EnProvinces[n].v : n \in 1..Len(EnProvinces)}

\* data.partnerContact as a condition: false when the property is absent
PartnerContact(data) ==
    IF "partnerContact" \in DOMAIN data THEN data.partnerContact ELSE FALSE

\* the checkbox set to the value of data.partnerContact
CheckboxAfter_set(checked, data) == PartnerContact(data)

\* lines 156-158: check() under if (data.partnerContact)
CheckboxAfter(checked, data) == IF PartnerContact(data) THEN TRUE ELSE checked

\* the form data fillForm is called with
FormInputs ==
    {base @@ extra :
        base \in [firstName : {"Ada", ""}, lastName : {"Roy"}, phoneNumber : {"4165550100"},
                  province : {"Ontario", "Atlantis"}, email : {"ada.roy@example.com"},
                  password : {WeakPassword}, confirmPassword : {WeakPassword, OtherPassword}],
        extra \in {<<>>, [partnerContact |-> TRUE], [partnerContact |-> FALSE]}}

EmptyForm ==
    [firstName |-> "", lastName |-> "", phoneNumber |-> "", province |-> "", email |-> "",
     password |-> <<>>, confirmPassword |-> <<>>, partnerContact |-> FALSE]

\* fillForm is called on a form whose checkbox is checked or not
CallFillForm ==
    /\ pc = "ready"
    /\ \E data \in FormInputs, checked \in BOOLEAN :
         /\ formData' = data
         /\ formPage' = [EmptyForm EXCEPT !.partnerContact = checked]
         /\ checkedBefore' = checked
    /\ filled' = 0
    /\ pc' = "filling"
    /\ UNCHANGED notFormVars

\* lines 148-154: the next fill; selectOption throws for a value that is no option
FillField ==
    /\ pc = "filling"
    /\ filled < Len(FormFields)
    /\ LET field == FormFields[filled + 1]
       IN  IF field = "province" /\ formData[field] \notin ProvinceOptions
           THEN /\ pc' = "threw"
                /\ UNCHANGED <<formPage, filled>>
           ELSE /\ formPage' = [formPage EXCEPT ![field] = formData[field]]
                /\ filled' = filled + 1
                /\ pc' = pc
    /\ UNCHANGED <<formData, checkedBefore, notFormVars>>

\* lines 156-158 and the return
FinishFillForm ==
    /\ pc = "filling"
    /\ filled = Len(FormFields)
    /\ formPage' = [formPage EXCEPT
           !.partnerContact = CheckboxAfter(formPage.partnerContact, formData)]
    /\ pc' = "filled"
    /\ UNCHANGED <<formData, checkedBefore, filled, notFormVars>>

NextForm ==
    \/ CallFillForm
    \/ FillField
    \/ FinishFillForm

----------------------------------------------------------------------------
(* playwright.config.ts and the fixtures of base.fixtures.ts *)

\* a || b for optional strings
Or(a, b) == IF Truthy(a) THEN a ELSE b

\* str.replace(pattern, ''): the first occurrence of pattern is taken out
RemoveFirst(str, pattern) ==
    IF Includes(str, pattern)
    THEN LET k == CHOOSE n \in 0..(Len(str) - Len(pattern)) :
                      /\ SubSeq(str, n + 1, n + Len(pattern)) = pattern
                      /\ \A m \in 0..(n - 1) : SubSeq(str, m + 1, m + Len(pattern)) # pattern
         IN  SubSeq(str, 1, k) \o SubSeq(str, k + Len(pattern) + 1, Len(str))
    ELSE str

\* process.env.ENV_FILE?.replace('.env.', '')
EnvOfEnvFile(file) ==
    IF file = Undefined THEN Undefined ELSE Str(RemoveFirst(file.s, <<".", "e", "n", "v", ".">>))

\* playwright.config.ts line 9
ConfigEnv(pe) == Or(pe.ENV, Or(EnvOfEnvFile(pe.ENV_FILE), Str(<<"q", "a">>)))

\* playwright.config.ts line 10
ConfigEnvFile(pe) == Or(pe.ENV_FILE, Str(<<"e", "n", "v", "i", "r", "o", "n", "m", "e", "n", "t", "s", "/", ".", "e", "n", "v", ".">> \o ConfigEnv(pe).s))

\* dotenv.config({ path }): the variables of the file that process.env does
\* not have yet are added; a file that does not exist adds nothing
DotenvConfig(pe, files, path) ==
    IF \E f \in files : f.path = path
    THEN LET file == CHOOSE f \in files : f.path = path
         IN  [pe EXCEPT !.ENV = IF @ = Undefined THEN Str(file.ENV) ELSE @,
                        !.BASE_URL = IF @ = Undefined THEN Str(file.BASE_URL) ELSE @]
    ELSE pe

\* playwright.config.ts line 31
ConfigBaseURL(pe) == Or(pe.BASE_URL, Str(<<"h", "t", "t", "p", "s", ":", "/", "/", "a", "p", "p", ".", "q", "a", ".", "n", "e", "s", "t", "o", ".", "c", "a">>))

\* base.fixtures.ts line 18
FixtureEnvironment(pe) == Or(pe.ENV, Str(<<"d", "e", "v">>))

\* base.fixtures.ts line 25
FixtureBaseUrl(pe, environmentName) ==
    Or(pe.BASE_URL, Str(<<"h", "t", "t", "p", "s", ":", "/", "/", "a", "p", "p", ".">> \o environmentName.s \o <<".", "n", "e", "s", "t", "o", ".", "c", "a">>))

\* the environment file of the README for an environment
EnvironmentFile(name) ==
    [path |-> <<"e", "n", "v", "i", "r", "o", "n", "m", "e", "n", "t", "s", "/", ".", "e", "n", "v", ".">> \o name,
     ENV |-> name,
     BASE_URL |-> <<"h", "t", "t", "p", "s", ":", "/", "/", "a", "p", "p", ".">> \o name \o <<".", "n", "e", "s", "t", "o", ".", "c", "a">>]

EnvironmentNames == {<<"d", "e", "v">>, <<"q", "a">>, <<"s", "t", "a", "g", "i", "n", "g">>}

\* the environments the run is started with
ShellEnvironments ==
    [ENV : {Undefined, Str(<<>>)} \cup {Str(name) : name \in EnvironmentNames},
     ENV_FILE : {Undefined, Str(<<"e", "n", "v", "i", "r", "o", "n", "m", "e", "n", "t", "s", "/", ".", "e", "n", "v", ".", "d", "e", "v">>), Str(<<".", "e", "n", "v", ".", "q", "a">>)},
     BASE_URL : {Undefined, Str(<<"h", "t", "t", "p", ":", "/", "/", "l", "o", "c", "a", "l", "h", "o", "s", "t">>)}]

\* a run starts: the variables of the shell and the environment files that
\* have been created
StartRun ==
    /\ pc = "ready"
    /\ shellEnv' \in ShellEnvironments
    /\ processEnv' = shellEnv'
    /\ \E names \in SUBSET EnvironmentNames :
         envFiles' = {EnvironmentFile(name) : name \in names}
    /\ pc' = "started"
    /\ UNCHANGED <<env, envFile, baseURL, environment, fixtureBaseUrl, notConfigVars>>

\* playwright.config.ts is evaluated
LoadConfig ==
    /\ pc = "started"
    /\ env' = ConfigEnv(processEnv)
    /\ envFile' = ConfigEnvFile(processEnv)
    /\ processEnv' = DotenvConfig(processEnv, envFiles, ConfigEnvFile(processEnv).s)
    /\ baseURL' = ConfigBaseURL(processEnv')
    /\ pc' = "configured"
    /\ UNCHANGED <<shellEnv, envFiles, environment, fixtureBaseUrl, notConfigVars>>

\* the environment fixture
EnvironmentFixture ==
    /\ pc = "configured"
    /\ environment' = FixtureEnvironment(processEnv)
    /\ pc' = "environment"
    /\ UNCHANGED <<shellEnv, processEnv, envFiles, env, envFile, baseURL, fixtureBaseUrl,
                   notConfigVars>>

\* the localeConfig fixture up to its call of loadLocaleConfig
LocaleConfigFixture ==
    /\ pc = "environment"
    /\ fixtureBaseUrl' = FixtureBaseUrl(processEnv, environment)
    /\ pc' = "localeConfig"
    /\ UNCHANGED <<shellEnv, processEnv, envFiles, env, envFile, baseURL, environment,
                   notConfigVars>>

NextConfig ==
    \/ StartRun
    \/ LoadConfig
    \/ EnvironmentFixture
    \/ LocaleConfigFixture

----------------------------------------------------------------------------
(* Specifications *)

SpecEmail == Init /\ [][NextEmail]_vars

SpecVerify == Init /\ [][NextVerify]_vars

SpecProvince == Init /\ [][NextProvince]_vars

SpecLoader == Init /\ [][NextLoader]_vars

SpecConcurrent == Init /\ [][NextConcurrent]_vars

SpecRandom == Init /\ [][NextRandom]_vars

SpecUser == Init /\ [][NextUser]_vars

SpecIntercept == Init /\ [][NextIntercept]_vars

SpecForm == Init /\ [][NextForm]_vars

SpecConfig == Init /\ [][NextConfig]_vars

SpecLoaderFaults == Init /\ [][NextLoaderFaults]_vars

----------------------------------------------------------------------------
(* Claims about the password generator and validator *)

UpperLetters ==
    {"A", "B", "C", "D", "E", "F", "G", "H", "I", "J", "K", "L", "M",
     "N", "O", "P", "Q", "R", "S", "T", "U", "V", "W", "X", "Y", "Z"}

LowerLetters ==
    {"a", "b", "c", "d", "e", "f", "g", "h", "i", "j", "k", "l", "m",
     "n", "o", "p", "q", "r", "s", "t", "u", "v", "w", "x", "y", "z"}

Digits == {"0", "1", "2", "3", "4", "5", "6", "7", "8", "9"}

Contains(str, S) == \E k \in 1..Len(str) : str[k] \in S

\* how often x occurs in the sequence s
Occurrences(s, x) == Cardinality({k \in 1..Len(s) : s[k] = x})

Generated == pc \in {"generated", "validated"}

Validated == pc \in {"checked", "validated"}

\* C1: every password generateValidPassword returns has length exactly 12 and
\* holds at least one uppercase letter, one lowercase letter and one digit.
C1_GeneratedPasswordShape ==
    Generated =>
        /\ Len(password) = 12
        /\ Contains(password, UpperLetters)
        /\ Contains(password, LowerLetters)
        /\ Contains(password, Digits)

\* a generated password that the shuffle reordered: its first character is
\* not the mandatory uppercase letter
C1_Witness ==
    /\ pc = "generated"
    /\ password # randomUpper \o randomLower \o randomNumber \o remaining
    /\ password[1] \notin UpperLetters

\* C2: isValidPassword accepts every generated password, with no errors.
C2_ValidatorAcceptsGenerated ==
    pc = "validated" => (pwResult.isValid = TRUE /\ pwResult.errors = <<>>)

\* a generated password without a digit among the nine remaining characters
\* went through the validator
C2_Witness ==
    /\ pc = "validated"
    /\ ~Contains(remaining, Digits)
    /\ pwResult.isValid

\* C3: isValidPassword(p).isValid is true iff 12 <= length(p) <= 32 and p
\* holds a character of A-Z, one of a-z and one of 0-9.
C3_ValidIffPolicy ==
    Validated =>
        (pwResult.isValid <=>
            /\ 12 <= Len(password)
            /\ Len(password) <= 32
            /\ Contains(password, UpperLetters)
            /\ Contains(password, LowerLetters)
            /\ Contains(password, Digits))

\* a password of the maximum length 32 was accepted
C3_Witness ==
    /\ pc = "checked"
    /\ Len(password) = 32
    /\ pwResult.isValid

\* the number of entries errors must hold for a rule
Expect(violated) == IF violated THEN 1 ELSE 0

\* C4: errors holds exactly one entry for each violated rule and none for a
\* rule that holds; the check does not stop at the first violation.
C4_AllViolationsReported ==
    Validated =>
        /\ Occurrences(pwResult.errors, ErrTooShort) = Expect(Len(password) < 12)
        /\ Occurrences(pwResult.errors, ErrTooLong) = Expect(Len(password) > 32)
        /\ Occurrences(pwResult.errors, ErrUpper) = Expect(~Contains(password, UpperLetters))
        /\ Occurrences(pwResult.errors, ErrLower) = Expect(~Contains(password, LowerLetters))
        /\ Occurrences(pwResult.errors, ErrNumber) = Expect(~Contains(password, Digits))
        /\ Len(pwResult.errors) =
               Expect(Len(password) < 12) + Expect(Len(password) > 32)
             + Expect(~Contains(password, UpperLetters))
             + Expect(~Contains(password, LowerLetters))
             + Expect(~Contains(password, Digits))

\* a too long password without a lowercase letter and without a digit: three
\* rules are violated at once and all three are reported
C4_Witness ==
    /\ pc = "checked"
    /\ Len(password) > 32
    /\ pwResult.errors = <<ErrTooLong, ErrLower, ErrNumber>>

----------------------------------------------------------------------------
(* Claims about the email validator *)

EmailChecked == pc = "emailChecked"

\* the part of str before position k, and the part after it
Before(str, k) == SubSeq(str, 1, k - 1)
After(str, k) == SubSeq(str, k + 1, Len(str))

NoSpaceNoAt(str) == \A k \in 1..Len(str) : str[k] \notin WhiteSpace \cup {"@"}

\* C5, as stated: isValidEmail(e) is true iff e is local-part@domain where
\* neither part holds whitespace or @ and the domain holds at least one dot.
C5_Original ==
    EmailChecked =>
        (emailResult <=>
            \E at \in 1..Len(email) :
                /\ email[at] = "@"
                /\ Len(Before(email, at)) > 0
                /\ NoSpaceNoAt(Before(email, at))
                /\ NoSpaceNoAt(After(email, at))
                /\ "." \in {After(email, at)[k] : k \in 1..Len(After(email, at))})

\* C5, amended: isValidEmail(e) is true iff e holds no whitespace and exactly
\* one @, the local part before it is not empty, and the domain after it
\* holds a dot that is neither its first nor its last character.
C5_EmailIffInnerDot ==
    EmailChecked =>
        (emailResult <=>
            /\ Occurrences(email, "@") = 1
            /\ \A k \in 1..Len(email) : email[k] \notin WhiteSpace
            /\ email[1] # "@"
            /\ LET domain == After(email, CHOOSE at \in 1..Len(email) : email[at] = "@")
               IN  \E k \in 2..(Len(domain) - 1) : domain[k] = ".")

\* an address whose domain holds only dots was accepted: the middle dot is the
\* separator, the outer two are ordinary characters
C5_Witness ==
    /\ EmailChecked
    /\ email = <<"a", "@", ".", ".", ".">>
    /\ emailResult = TRUE

\* C6: isValidEmail rejects "invalid-email", "invalid@", "@invalid.com" and
\* "invalid..email@example.com" and accepts "john.doe@example.com".
C6_ExampleAddresses ==
    EmailChecked =>
        /\ email \in {InvalidEmail, InvalidAt, AtInvalidCom, InvalidDotDot}
               => emailResult = FALSE
        /\ email = JohnDoe => emailResult = TRUE

----------------------------------------------------------------------------
(* Claims about the response verifier *)

Verified == pc = "verified"

\* the mode of the call, 'contains' when none was passed
Mode == IF comparison = "omitted" THEN "contains" ELSE comparison

\* v has a property key, its own or an inherited one
HasProperty(v, key) ==
    /\ v.t \notin {"undefined", "null"}
    /\ \/ v.t = "object" /\ \E k \in 1..Len(v.o) : v.o[k].k = key
       \/ v.t \in {"string", "function"} /\ key = KeyLength
       \/ key = KeyToString

RECURSIVE KeyAbsentAlong(_, _)
\* walking keys from v reaches a value that lacks the next key
KeyAbsentAlong(v, keys) ==
    IF keys = <<>> THEN FALSE
    ELSE IF ~HasProperty(v, Head(keys)) THEN TRUE
    ELSE KeyAbsentAlong(Get(v, Head(keys)), Tail(keys))

\* C7: field resolution never throws, for an undefined or null payload and
\* for an absent or null intermediate key as well; the resolved value is
\* undefined once a key along the path is absent, and the call returns a pair.
C7_ResolutionNeverThrows ==
    Verified =>
        /\ fieldValue # TypeError
        /\ verifyResult.threw = FALSE
        /\ verifyResult.isValid \in BOOLEAN
        /\ KeyAbsentAlong(responseBody, Split(fieldPath, ".")) => fieldValue = Undefined

\* the path a.b was resolved in a payload whose property a holds null
C7_Witness ==
    /\ Verified
    /\ responseBody = Obj(<<[k |-> KeyA, v |-> Null]>>)
    /\ fieldPath = <<"a", ".", "b">>
    /\ fieldValue = Undefined
    /\ verifyResult.threw = FALSE

\* C8: in 'defined' mode isValid is true iff the resolved value is neither
\* undefined nor null (0, false and "" count as defined), and the result is
\* the same whatever expectedValue is.
C8_DefinedMode ==
    (Verified /\ Mode = "defined") =>
        /\ verifyResult.isValid <=> fieldValue.t \notin {"undefined", "null"}
        /\ \A other \in ExpectedValues :
               verifyResponseBodyValue(responseBody, fieldPath, other, comparison) = verifyResult

\* a property holding 0 was found defined
C8_Witness ==
    /\ Verified
    /\ Mode = "defined"
    /\ fieldValue = Num(0)
    /\ verifyResult.isValid = TRUE

\* C9: in 'equals' and 'contains' modes a resolved value of undefined or null
\* gives isValid = false whatever expectedValue is, with a message that says
\* the field is missing and states the expected value.
C9_MissingFieldInvalid ==
    (Verified /\ Mode \in {"equals", "contains"} /\ fieldValue.t \in {"undefined", "null"}) =>
        /\ verifyResult.isValid = FALSE
        /\ Includes(verifyResult.errorMessage,
                    fieldPath \o TextIsMissingExpected \o JsString(JSONStringify(expectedValue)))

\* a property holding null was compared with an expected null and found missing
C9_Witness ==
    /\ Verified
    /\ Mode = "contains"
    /\ fieldValue = Null
    /\ expectedValue = Null
    /\ verifyResult.isValid = FALSE

\* sub occurs in str
IsSubstring(sub, str) ==
    \E from \in 1..(Len(str) + 1), to \in 0..Len(str) : SubSeq(str, from, to) = sub

\* C10: for a resolved value that is neither undefined nor null, 'equals' is
\* valid iff the value and expectedValue have the same type and value, and
\* 'contains' (also the default mode) is valid iff the text of expectedValue
\* is a substring of the text of the resolved value.
C10_EqualsAndContains ==
    (Verified /\ fieldValue.t \notin {"undefined", "null"}) =>
        /\ Mode = "equals" => (verifyResult.isValid <=> fieldValue = expectedValue)
        /\ Mode = "contains" =>
               (verifyResult.isValid <=>
                    IsSubstring(JsString(expectedValue), JsString(fieldValue)))

\* no mode was passed, the number 10 was resolved and the number 1 expected:
\* "1" is a substring of "10"
C10_Witness ==
    /\ Verified
    /\ comparison = "omitted"
    /\ fieldValue = Num(10)
    /\ expectedValue = Num(1)
    /\ verifyResult.isValid = TRUE

\* C11: in every mode and for every input the returned errorMessage is the
\* empty string if and only if isValid is true.
C11_MessageEmptyIffValid ==
    Verified => (Len(verifyResult.errorMessage) = 0 <=> verifyResult.isValid = TRUE)

\* an 'equals' check of the string "1" against the string "1" succeeded with
\* an empty message
C11_Witness ==
    /\ Verified
    /\ comparison = "equals"
    /\ fieldValue = Str(<<"1">>)
    /\ expectedValue = Str(<<"1">>)
    /\ verifyResult.isValid = TRUE
    /\ verifyResult.errorMessage = <<>>

\* str ends with tail
HasTail(str, tail) ==
    /\ Len(tail) <= Len(str)
    /\ \A k \in 1..Len(tail) : str[Len(str) - Len(tail) + k] = tail[k]

----------------------------------------------------------------------------
(* Claims about concurrent calls *)

\* what the call of test t returns when it runs alone on its arguments
ResultAlone(t) ==
    LET call == testCalls[t]
    IN  CASE call.fn = "getLocalizedProvince" ->
                 getLocalizedProvince(call.args.key, call.args.localeConfig)
          [] call.fn = "getAllLocalizedProvinces" ->
                 getAllLocalizedProvinces(call.args.localeConfig)
          [] call.fn = "getProvinceCodeFromName" ->
                 getProvinceCodeFromName(call.args.provinceName, call.args.localeConfig)
          [] call.fn = "verifyResponseBodyValue" ->
                 verifyResponseBodyValue(call.args.responseBody, call.args.fieldPath,
                                         call.args.expectedValue, call.args.comparison)

\* C13: under any interleaving of the calls of concurrently running tests,
\* a call of verifyResponseBodyValue, getLocalizedProvince,
\* getAllLocalizedProvinces or getProvinceCodeFromName that has returned has
\* returned what it returns alone on the same arguments, and the objects it
\* was passed are as they were when it was called.
C13_CallsDoNotInterfere ==
    pc = "shared" =>
        \A t \in Tests :
            testCalls[t].at = "returned" =>
                /\ testCalls[t].result = ResultAlone(t)
                /\ IF testCalls[t].fn = "verifyResponseBodyValue"
                   THEN heap.body = testCalls[t].args.responseBody
                   ELSE heap.config = testCalls[t].args.localeConfig

\* a call of getAllLocalizedProvinces has returned while a call of
\* getProvinceCodeFromName by another test is in the middle of its map
C13_Witness ==
    /\ pc = "shared"
    /\ \E t \in Tests, u \in Tests :
         /\ t # u
         /\ testCalls[t].fn = "getAllLocalizedProvinces"
         /\ testCalls[t].at = "returned"
         /\ Len(testCalls[t].result) = Len(PROVINCE_CODES)
         /\ testCalls[u].fn = "getProvinceCodeFromName"
         /\ testCalls[u].at = "running"
         /\ testCalls[u].frame.n > 0
         /\ testCalls[u].frame.n < Len(PROVINCE_CODES)

----------------------------------------------------------------------------
(* Claims about the province catalog *)

\* the catalog, written out: the code of every key and the order of the keys
CatalogCode ==
    [ONTARIO |-> "ON", QUEBEC |-> "QC", ALBERTA |-> "AB", BRITISH_COLUMBIA |-> "BC",
     MANITOBA |-> "MB", NEW_BRUNSWICK |-> "NB", NOVA_SCOTIA |-> "NS", NEWFOUNDLAND |-> "NL",
     PRINCE_EDWARD_ISLAND |-> "PE", SASKATCHEWAN |-> "SK", NORTHWEST_TERRITORIES |-> "NT",
     YUKON |-> "YT", NUNAVUT |-> "NU"]

CatalogOrder ==
    <<"ONTARIO", "QUEBEC", "ALBERTA", "BRITISH_COLUMBIA", "MANITOBA", "NEW_BRUNSWICK",
      "NOVA_SCOTIA", "NEWFOUNDLAND", "PRINCE_EDWARD_ISLAND", "SASKATCHEWAN",
      "NORTHWEST_TERRITORIES", "YUKON", "NUNAVUT">>

\* the display name the configuration gives the key
NameIn(cfg, key) ==
    LET doc == cfg.provinces
    IN  doc[CHOOSE n \in 1..Len(doc) : doc[n].k = key].v

\* the display names of the configuration
NamesOf(cfg) == {cfg.provinces[n].v : n \in 1..Len(cfg.provinces)}

Called(function) == pc = "returned" /\ provinceCall = function

\* C14: the code getLocalizedProvince returns is the catalog's code of the
\* key under every configuration; the name is the configuration's name of
\* the key.
C14_CodeIndependentOfLocale ==
    Called("getLocalizedProvince") =>
        /\ provinceResult.value.key = provinceKey
        /\ provinceResult.value.code = CatalogCode[provinceKey]
        /\ provinceResult.value.name = NameIn(localeConfig, provinceKey)
        /\ \A other \in LocaleConfigs :
               getLocalizedProvince(provinceKey, other).code = provinceResult.value.code

\* Quebec was localised under the fr configuration: a name that differs from
\* the en name, and the code QC
C14_Witness ==
    /\ Called("getLocalizedProvince")
    /\ provinceKey = "QUEBEC"
    /\ localeConfig.provinces = FrProvinces
    /\ provinceResult.value.name # NameIn([provinces |-> EnProvinces], "QUEBEC")
    /\ provinceResult.value.code = "QC"

\* C15: getAllLocalizedProvinces returns 13 triples, one for each key of the
\* catalog in the catalog's order, each the localized province of its key.
C15_AllProvincesInCatalogOrder ==
    Called("getAllLocalizedProvinces") =>
        /\ Len(provinceResult.value) = 13
        /\ \A n \in 1..13 :
               /\ provinceResult.value[n].key = CatalogOrder[n]
               /\ provinceResult.value[n].code = CatalogCode[CatalogOrder[n]]
               /\ provinceResult.value[n].name = NameIn(localeConfig, CatalogOrder[n])
        /\ \A n, m \in 1..13 :
               provinceResult.value[n].key = provinceResult.value[m].key => n = m

\* all provinces of the fr configuration, whose document lists the keys in
\* another order than the catalog
C15_Witness ==
    /\ Called("getAllLocalizedProvinces")
    /\ localeConfig.provinces = FrProvinces
    /\ provinceResult.value[1].key = "ONTARIO"
    /\ provinceResult.value[13].key = "NUNAVUT"

\* C16: for a name that is no display name of the configuration
\* getProvinceCodeFromName returns the empty string and does not throw; for a
\* name of the configuration it never returns the empty string.
C16_NotFoundSentinel ==
    Called("getProvinceCodeFromName") =>
        /\ provinceResult.threw = FALSE
        /\ provinceName \notin NamesOf(localeConfig) => provinceResult.value = ""
        /\ provinceName \in NamesOf(localeConfig) => provinceResult.value # ""

\* a French name was looked up in the en configuration
C16_Witness ==
    /\ Called("getProvinceCodeFromName")
    /\ provinceName = "Colombie-Britannique"
    /\ localeConfig.provinces = EnProvinces
    /\ provinceResult = [threw |-> FALSE, value |-> ""]

\* C30: looking up the display name the configuration gives a key K returns
\* the catalog's code of K when no other key has that display name, and the
\* code of the first key in catalog order with that display name otherwise.
C30_NameLookupInvertsLocalize ==
    Called("getProvinceCodeFromName") =>
        \A n \in 1..13 :
            NameIn(localeConfig, CatalogOrder[n]) = provinceName =>
                /\ (\A m \in 1..13 :
                        m # n => NameIn(localeConfig, CatalogOrder[m]) # provinceName)
                       => provinceResult.value = CatalogCode[CatalogOrder[n]]
                /\ (\A m \in 1..(n - 1) :
                        NameIn(localeConfig, CatalogOrder[m]) # provinceName)
                       => provinceResult.value = CatalogCode[CatalogOrder[n]]

\* "Ontario" was looked up in a configuration that gives the name to every
\* second key, QUEBEC being the first of them
C30_Witness ==
    /\ Called("getProvinceCodeFromName")
    /\ provinceName = "Ontario"
    /\ NameIn(localeConfig, "ONTARIO") = "QC"
    /\ NameIn(localeConfig, "QUEBEC") = "Ontario"
    /\ NameIn(localeConfig, "BRITISH_COLUMBIA") = "Ontario"
    /\ provinceResult.value = "QC"

----------------------------------------------------------------------------
(* Claims about loadLocaleConfig *)

Loaded == pc \in {"loaded", "reloaded"}

\* the urls.json document of the locale that was loaded
StoredUrls == documents[locale]["urls.json"].value

BaseSupplied == baseUrl.t = "string" /\ Len(baseUrl.s) > 0

\* the base URL without its trailing slash, if it has one
NormalizedBase ==
    IF baseUrl.s[Len(baseUrl.s)] = "/"
    THEN [k \in 1..(Len(baseUrl.s) - 1) |-> baseUrl.s[k]]
    ELSE baseUrl.s

BeginsWith(str, prefix) ==
    Len(str) >= Len(prefix) /\ \A k \in 1..Len(prefix) : str[k] = prefix[k]

\* an absolute URL: it begins with the scheme http:// or https://
IsAbsolute(url) ==
    \/ BeginsWith(url, <<"h", "t", "t", "p", ":", "/", "/">>)
    \/ BeginsWith(url, <<"h", "t", "t", "p", "s", ":", "/", "/">>)

UrlFields == {"signup", "login", "termsOfService"}

\* C17: without a base URL (absent or empty) signup, login and termsOfService
\* are the values of the stored urls document and baseUrl is the empty string.
C17_NoBaseLeavesUrlsUnresolved ==
    (Loaded /\ ~BaseSupplied) =>
        /\ config.threw = FALSE
        /\ \A f \in UrlFields : config.value.urls[f] = StoredUrls[f]
        /\ config.value.urls.baseUrl = <<>>

\* the fr configuration was loaded with the empty string as base URL, its
\* termsOfService being relative
C17_Witness ==
    /\ pc = "loaded"
    /\ locale = "fr"
    /\ baseUrl = Str(<<>>)
    /\ StoredUrls.termsOfService = RelativeTerms
    /\ config.value.urls.termsOfService = RelativeTerms

C19_AbsoluteUrlsPassThrough ==
    (Loaded /\ BaseSupplied) =>
        \A f \in UrlFields :
            IsAbsolute(StoredUrls[f]) => config.value.urls[f] = StoredUrls[f]

----------------------------------------------------------------------------
(* Claims about getRandomValue *)

\* C24: for the empty array getRandomValue throws and returns no value; for
\* a non-empty array and every draw the index floor(random * length) lies in
\* 0..length-1 and the element at that index is returned.
C24_RandomValueFromArray ==
    pc = "drawn" =>
        /\ Len(array) = 0 => arrayResult.threw = TRUE
        /\ Len(array) > 0 =>
               /\ arrayResult.threw = FALSE
               /\ \E index \in 0..(Len(array) - 1) :
                      /\ index * RandomResolution <= arrayDraw * Len(array)
                      /\ arrayDraw * Len(array) < (index + 1) * RandomResolution
                      /\ arrayResult.value = array[index + 1]

\* the largest draw on an array of three different elements gave the last one
C24_Witness ==
    /\ pc = "drawn"
    /\ array = <<"Ontario", "Quebec", "Alberta">>
    /\ arrayDraw = RandomResolution - 1
    /\ arrayResult = [threw |-> FALSE, value |-> "Alberta"]

----------------------------------------------------------------------------
(* Claims about createTestUser *)

Created == pc = "created"

UserFields ==
    {"firstName", "lastName", "phoneNumber", "province", "email", "password",
     "confirmPassword", "partnerContact"}

\* the password policy: 12 to 32 characters with an uppercase letter, a
\* lowercase letter and a digit
MeetsPolicy(str) ==
    /\ Len(str) >= 12
    /\ Len(str) <= 32
    /\ Contains(str, UpperLetters)
    /\ Contains(str, LowerLetters)
    /\ Contains(str, Digits)

\* C22: without overrides the record has password equal to confirmPassword,
\* the password meets the password policy, partnerContact is false and
\* province is the configuration's display name of ONTARIO, which is no
\* two-letter code.
C22_DefaultTestUser ==
    (Created /\ ~overrides.given) =>
        /\ testUser.password = testUser.confirmPassword
        /\ MeetsPolicy(testUser.password)
        /\ testUser.partnerContact = FALSE
        /\ testUser.province = NameIn(userLocale, "ONTARIO")
        /\ \A n \in 1..13 : testUser.province # CatalogCode[CatalogOrder[n]]

\* a default user of the fr configuration
C22_Witness ==
    /\ Created
    /\ ~overrides.given
    /\ userLocale.provinces = FrProvinces
    /\ testUser.province = "Ontario (fr)"
    /\ Len(testUser.password) = 12

\* C23: each field present in the overrides has the overrides' value, each
\* field absent from them has the generated default; the record has the
\* eight fields and no other.
C23_OverridesReplaceOnlyTheirFields ==
    Created =>
        /\ DOMAIN testUser = UserFields
        /\ \A f \in UserFields :
               IF overrides.given /\ f \in DOMAIN overrides.fields
               THEN testUser[f] = overrides.fields[f]
               ELSE testUser[f] = defaultUserData[f]

\* password alone was overridden: confirmPassword is the generated password
C23_Witness ==
    /\ Created
    /\ overrides.given
    /\ DOMAIN overrides.fields = {"password"}
    /\ testUser.password = WeakPassword
    /\ testUser.confirmPassword = defaultUserData.password
    /\ testUser.confirmPassword # testUser.password

----------------------------------------------------------------------------
(* Claims about setupApiInterception *)

InterceptionIds == {"signup", "oauth", "account"}

\* the method an interception waits for, POST when none was passed
MethodOf(c) ==
    IF InterceptionCalls[c].requestMethod = "omitted" THEN "POST"
    ELSE InterceptionCalls[c].requestMethod

\* the response matches pattern and method of the interception: the string
\* occurs in the URL, or the URL matches the regular expression /text$/
MatchesCall(c, resp) ==
    /\ IF InterceptionCalls[c].urlPattern.type = "string"
       THEN IsSubstring(InterceptionCalls[c].urlPattern.text, resp.url)
       ELSE HasTail(resp.url, InterceptionCalls[c].urlPattern.text)
    /\ resp.method = MethodOf(c)

\* C25: every ApiResponse has the status of the intercepted response and as
\* body the payload the response carries as JSON; when the body is no JSON
\* the body is the empty structure and the promise has resolved all the same.
C25_ApiResponseStatusAndBody ==
    pc = "page" =>
        \A c \in InterceptionIds :
            /\ interceptions[c].at = "resolved" =>
                   /\ interceptions[c].value.status = interceptions[c].response.status
                   /\ interceptions[c].value.body =
                          IF interceptions[c].response.payload = Undefined
                          THEN Obj(<<>>)
                          ELSE interceptions[c].response.payload
            /\ interceptions[c].at = "rejected" => interceptions[c].response = NoResponse

\* the signup interception resolved with the status 500 of a response whose
\* body is an HTML page
C25_Witness ==
    /\ pc = "page"
    /\ interceptions["signup"].at = "resolved"
    /\ interceptions["signup"].response.text = <<"<", "h", "t", "m", "l", ">">>
    /\ interceptions["signup"].value = [status |-> 500, body |-> Obj(<<>>)]

\* C26: a promise is fulfilled or resolved only with a response that arrived
\* after the call, matches its pattern and has its method, and that is the
\* first such response; a promise still waiting has seen no such response.
\* This holds for every order in which the responses arrive.
C26_ResolvesWithFirstMatch ==
    pc = "page" =>
        \A c \in InterceptionIds :
            /\ interceptions[c].at \in {"fulfilled", "resolved"} =>
                   \E n \in (interceptions[c].since + 1)..Len(responseLog) :
                       /\ responseLog[n] = interceptions[c].response
                       /\ MatchesCall(c, responseLog[n])
                       /\ \A m \in (interceptions[c].since + 1)..(n - 1) :
                              ~MatchesCall(c, responseLog[m])
            /\ interceptions[c].at = "waiting" =>
                   \A n \in (interceptions[c].since + 1)..Len(responseLog) :
                       ~MatchesCall(c, responseLog[n])

\* the three interceptions of TC-018 resolved, the account response having
\* arrived first and the signup response last
C26_Witness ==
    /\ pc = "page"
    /\ \A c \in {"signup", "oauth", "account"} :
           interceptions[c].at = "resolved" /\ interceptions[c].since = 0
    /\ Len(responseLog) = 3
    /\ responseLog[1] = interceptions["account"].response
    /\ responseLog[3] = interceptions["signup"].response
    /\ interceptions["account"].response.url = UrlAccount
    /\ interceptions["signup"].response.url = UrlAccounts

----------------------------------------------------------------------------
(* Claims about SignupPage.fillForm *)

\* the data asks for partner contact
WantsPartnerContact ==
    "partnerContact" \in DOMAIN formData /\ formData["partnerContact"] = TRUE

\* C27: when fillForm has completed with partnerContact true the checkbox is
\* checked; with partnerContact false or absent the checkbox is as it was
\* before the call.
C27_CheckboxOnlyChecked ==
    pc = "filled" =>
        /\ WantsPartnerContact => formPage.partnerContact = TRUE
        /\ ~WantsPartnerContact => formPage.partnerContact = checkedBefore

\* fillForm completed with partnerContact false on a form whose checkbox
\* was checked: it is still checked
C27_Witness ==
    /\ pc = "filled"
    /\ "partnerContact" \in DOMAIN formData
    /\ formData["partnerContact"] = FALSE
    /\ checkedBefore = TRUE
    /\ formPage.partnerContact = TRUE
    /\ formPage.confirmPassword = OtherPassword

----------------------------------------------------------------------------
(* Claims about the configuration *)

IsSet(value) == value.t = "string" /\ Len(value.s) > 0

\* C28: the environment file is ENV_FILE when that is set, else the file of
\* the environment ENV names when that is set, else environments/.env.dev.
C28_EnvFilePriority ==
    pc \in {"configured", "environment", "localeConfig"} =>
        envFile.s =
            IF IsSet(shellEnv.ENV_FILE) THEN shellEnv.ENV_FILE.s
            ELSE IF IsSet(shellEnv.ENV) THEN <<"e", "n", "v", "i", "r", "o", "n", "m", "e", "n", "t", "s", "/", ".", "e", "n", "v", ".">> \o shellEnv.ENV.s
            ELSE <<"e", "n", "v", "i", "r", "o", "n", "m", "e", "n", "t", "s", "/", ".", "e", "n", "v", ".", "d", "e", "v">>

\* C29: whatever ENV and BASE_URL are, the base URL of the localeConfig
\* fixture is the baseURL of the configuration.
C29_FixtureBaseIsConfigBase ==
    pc = "localeConfig" => fixtureBaseUrl = baseURL

----------------------------------------------------------------------------
(* Claims about loadLocaleConfig and documents at fault *)

SignupKeys == {"heading"}

UrlKeys == {"signup", "login", "termsOfService"}

\* the document has every required key of its section
Complete(filename, doc) ==
    CASE filename = "signup.json" -> SignupKeys \subseteq DOMAIN doc
      [] filename = "provinces.json" ->
             \A n \in 1..13 : \E m \in DOMAIN doc : doc[m].k = CatalogOrder[n]
      [] filename = "urls.json" -> UrlKeys \subseteq DOMAIN doc

\* the section document of the loaded locale is there, is JSON and is complete
SoundFile(filename) ==
    LET file == documents[locale][filename]
    IN  /\ file.content = "json"
        /\ Complete(filename, file.value)

SectionFiles == {"signup.json", "provinces.json", "urls.json"}

\* C21: when a section document of the requested locale is missing, is not
\* parsable or lacks a required key the call fails; every configuration that
\* is returned has the required keys of the three sections.
C21_LoaderFailsClosed ==
    pc = "loaded" =>
        /\ (\E filename \in SectionFiles : ~SoundFile(filename)) => config.threw = TRUE
        /\ config.threw = FALSE =>
               /\ Complete("signup.json", config.value.signup)
               /\ Complete("provinces.json", config.value.provinces)
               /\ Complete("urls.json", config.value.urls)

====
